---- MODULE Spec2Model ----
(***************************************************************************)
(* AMR fleet manager: the deterministic simulation engine (sim-runner),    *)
(* the baseline heuristic and the dispatcher worker, modelled from the     *)
(* Python sources.                                                         *)
(*                                                                         *)
(* Units.  Coordinates are whole cells and every modelled scenario keeps   *)
(* each leg of a trip on an axis, so hypot() is exact.  Robot speeds are   *)
(* whole multiples of tick_hz cells per second, so speed * dt is a whole   *)
(* number of cells.  Durations (phase_remaining_s, the dropoff countdown)  *)
(* are kept in units of dt = 1 / tick_hz seconds.  Battery is in percent;  *)
(* one cell of travel costs CellBattery percent (travel * 0.1 with a cell  *)
(* of 10 * CellBattery world units).  round(v, 3) is the identity on all   *)
(* of these values.  Job ids "job_<n>" are written n; their order is the   *)
(* order of the strings (JobIdLess).  None is NoJob / NoCoord / NoRobot /  *)
(* NoTime / "none".                                                        *)
(***************************************************************************)
EXTENDS Integers, Sequences, FiniteSets, TLC

\* ---------------------------------------------------------------- bounds
NumRobots == 2
NumJobs == 2
MaxCoord == 2
MaxTicks == 5
MaxSimSeconds == 3
MaxInterval == 2
HighThreshold == 60
MaxQueue == 2
MaxSteps == 8
MaxTasks == 2
MaxRedeliver == 2
MaxAckRedeliver == 1
MaxOwed == 2
MaxDeadline == 4
MaxGenerations == 2
MaxSeed == 7
RngModulus == 32
MaxWorldSize == 100
HashModulus == 65521

\* ------------------------------------------------------ program constants
FullBattery == 100
robot_speed_min == 1
robot_speed_max == 2
CellBattery == 50
BatteryThreshold == 20
ChargeResumeThreshold == 20
NoJob == 0
NoRobot == 0
NoCoord == -1
NoTime == -1

RobotIds == 1..NumRobots
JobIds == 1..NumJobs

RobotStates == {"idle", "moving_to_pickup", "moving_to_dropoff", "charging"}
JobStates == {"pending", "unassigned", "assigned", "in_progress", "completed", "failed"}

\* --------------------------------------------------------------- helpers
Abs(a) == IF a < 0 THEN -a ELSE a
Min(a, b) == IF a <= b THEN a ELSE b
Max(a, b) == IF a >= b THEN a ELSE b

\* math.hypot, exact where the result is a whole number (axis-aligned legs).
hypot(dx, dy) == CHOOSE d \in 0..(Abs(dx) + Abs(dy)) : d * d = dx * dx + dy * dy

\* The decimal digits of n, most significant first.
RECURSIVE Digits(_)
Digits(n) == IF n < 10 THEN <<n>> ELSE Append(Digits(n \div 10), n % 10)

\* Python's order on the strings "job_<a>" and "job_<b>": the common prefix
\* "job_" aside, lexicographic on the digits, a proper prefix first.
RECURSIVE LexLess(_, _)
LexLess(s, t) ==
    IF t = <<>> THEN FALSE
    ELSE IF s = <<>> THEN TRUE
    ELSE IF Head(s) # Head(t) THEN Head(s) < Head(t)
    ELSE LexLess(Tail(s), Tail(t))

JobIdLess(a, b) == LexLess(Digits(a), Digits(b))

\* list.sort(key=...) on a list without equal keys: the elements of S in the
\* order Less, smallest first.
Sorted(S, Less(_, _)) ==
    [i \in 1..Cardinality(S) |->
        CHOOSE x \in S : Cardinality({y \in S : Less(y, x)}) = i - 1]

VARIABLES
    cfg,                        \* SimulationEngine constructor parameters, dispatcher settings
    tick,                       \* SimulationState.tick
    robots,                     \* SimulationState.robots, by id
    jobs,                       \* SimulationState.jobs, by id
    last_emitted_state,         \* engine.last_emitted_state
    last_position_emit_sim_s,   \* engine.last_position_emit_sim_s
    dropoff_service_remaining,  \* engine.dropoff_service_remaining
    resume_state,               \* engine.resume_state
    robot_events,               \* the robot_update_sink's list
    last_call,                  \* the engine call made last and what it returned
    applied,                    \* per job: how many apply_assignment calls succeeded
    initial_emits,              \* emit_initial_robot_updates calls so far
    base_in,                    \* compute_baseline_assignments: the arguments
    base_out,                   \* ... and the list returned ("none" before the call)
    sim_pc,                     \* _simulate_run: "waiting", "loop" or "done"
    assignment_queue,           \* SimRunner.assignment_queues[run_id]
    previous_job_states,        \* _simulate_run's previous_job_states
    exchange,                   \* what the sim-runner has published, by routing key
    sim_steps,                  \* iterations of the simulation loop so far
    rejected,                   \* the assignments the last drain saw apply_assignment refuse
    states,                     \* DispatcherWorker.states[run_id]: every RunState made for the run
    tasks,                      \* the dispatcher's suspended handler tasks
    delivered,                  \* per dispatcher queue: messages handed to _on_message so far
    redeliveries,               \* deliveries repeated by the broker so far
    job_assigned_log,           \* every job.assigned the dispatcher has published
    unconfirmed,                \* per robot: the job last assigned to it and not yet confirmed
    baseline_runs,              \* per RunState and sim_time_s: entries into _dispatch_baseline
    retry_owed,                 \* robot.updated handled without a replan since an optimizer error
    replan_calls,               \* the reasons of the _replan_ga calls of the last handler stretch
    fn_in,                      \* a function of the optimizer or the generator called alone: the arguments
    fn_out,                     \* ... and what the calls returned ("none" before)
    mq                          \* per handler: the message it was last given, and its acks

\* settings.ga_replan_interval_s: read from the environment when the worker
\* starts (0 unless set), the same for every handler of the process.
ga_replan_interval_s == cfg.ga_replan_interval_s

\* settings.battery_threshold of the dispatcher (BatteryThreshold unless set).
settings_battery_threshold == cfg.battery_threshold

engine_vars == <<tick, robots, jobs, last_emitted_state, last_position_emit_sim_s,
                 dropoff_service_remaining, resume_state, robot_events>>

api_vars == <<last_call, applied, initial_emits>>
base_vars == <<base_in, base_out>>
fn_vars == <<fn_in, fn_out>>
sim_vars == <<sim_pc, assignment_queue, previous_job_states, exchange, sim_steps, rejected>>

\* Everything outside the engine, its API harness and the baseline harness.
disp_vars == <<states, tasks, delivered, redeliveries, job_assigned_log, unconfirmed,
               baseline_runs, replan_calls, retry_owed>>
sys_vars == <<sim_vars, disp_vars, mq>>

\* What the sim-runner's steps leave alone.
sim_frame == <<api_vars, base_vars, fn_vars, disp_vars>>

vars == <<cfg, engine_vars, api_vars, base_vars, fn_vars, sys_vars>>

\* The engine's mutable state as one value, for the operators below.
Eng == [tick |-> tick, robots |-> robots, jobs |-> jobs,
        last_emitted_state |-> last_emitted_state,
        last_position_emit_sim_s |-> last_position_emit_sim_s,
        dropoff_service_remaining |-> dropoff_service_remaining,
        resume_state |-> resume_state,
        robot_events |-> robot_events]

SetEng(e) ==
    /\ tick' = e.tick
    /\ robots' = e.robots
    /\ jobs' = e.jobs
    /\ last_emitted_state' = e.last_emitted_state
    /\ last_position_emit_sim_s' = e.last_position_emit_sim_s
    /\ dropoff_service_remaining' = e.dropoff_service_remaining
    /\ resume_state' = e.resume_state
    /\ robot_events' = e.robot_events

\* ---------------------------------------------------------------- engine
Robot(x, y, speed, battery) ==
    [x |-> x, y |-> y, speed |-> speed, battery |-> battery, state |-> "idle",
     current_job_id |-> NoJob, target_x |-> NoCoord, target_y |-> NoCoord,
     phase_remaining_s |-> 0, distance_traveled |-> 0]

Job(pickup_x, pickup_y, dropoff_x, dropoff_y, deadline_ts, priority) ==
    [pickup_x |-> pickup_x, pickup_y |-> pickup_y,
     dropoff_x |-> dropoff_x, dropoff_y |-> dropoff_y,
     deadline_ts |-> deadline_ts, priority |-> priority, state |-> "pending",
     assigned_robot_id |-> NoRobot, created_sim_ts |-> 0,
     started_sim_ts |-> NoTime, completed_sim_ts |-> NoTime, lateness_s |-> 0]

NewEngine(rs, js) ==
    [tick |-> 0, robots |-> rs, jobs |-> js,
     last_emitted_state |-> [r \in DOMAIN rs |-> "none"],
     last_position_emit_sim_s |-> [r \in DOMAIN rs |-> NoTime],
     dropoff_service_remaining |-> [r \in DOMAIN rs |-> NoTime],
     resume_state |-> [r \in DOMAIN rs |-> "none"],
     robot_events |-> <<>>]

\* Mutant: the engine's clock counts the updates waiting in the sink.
sim_time_from_sink(e) == Len(e.robot_events)

current_sim_time_s(e) == e.tick \div cfg.tick_hz

robot_payload(e, rid, sim_time_s) ==
    LET robot == e.robots[rid] IN
    [robot_id |-> rid, state |-> robot.state, sim_time_s |-> sim_time_s,
     x |-> robot.x, y |-> robot.y, speed |-> robot.speed,
     battery |-> robot.battery, current_job_id |-> robot.current_job_id]

\* Mutant: a position update is let through in a second that already has an
\* emission.
emit_robot_updated_lax(e, rid, sim_time_s, force) ==
    IF force
    THEN [e EXCEPT !.robot_events = Append(@, robot_payload(e, rid, sim_time_s)),
                   !.last_emitted_state[rid] = e.robots[rid].state,
                   !.last_position_emit_sim_s[rid] = sim_time_s]
    ELSE LET last_emit == e.last_position_emit_sim_s[rid] IN
         IF last_emit # NoTime /\ sim_time_s < last_emit
         THEN e
         ELSE [e EXCEPT !.robot_events = Append(@, robot_payload(e, rid, sim_time_s)),
                        !.last_position_emit_sim_s[rid] = sim_time_s]

emit_robot_updated(e, rid, sim_time_s, force) ==
    IF force
    THEN [e EXCEPT !.robot_events = Append(@, robot_payload(e, rid, sim_time_s)),
                   !.last_emitted_state[rid] = e.robots[rid].state,
                   !.last_position_emit_sim_s[rid] = sim_time_s]
    ELSE LET last_emit == e.last_position_emit_sim_s[rid] IN
         IF last_emit # NoTime /\ sim_time_s <= last_emit
         THEN e
         ELSE [e EXCEPT !.robot_events = Append(@, robot_payload(e, rid, sim_time_s)),
                        !.last_position_emit_sim_s[rid] = sim_time_s]

RECURSIVE emit_initial_from(_, _, _)
emit_initial_from(e, rid, sim_time_s) ==
    IF rid \notin DOMAIN e.robots
    THEN e
    ELSE emit_initial_from(emit_robot_updated(e, rid, sim_time_s, TRUE), rid + 1, sim_time_s)

\* Mutant: the initial updates stamped with time 0 instead of the current time.
emit_initial_at_zero(e) == emit_initial_from(e, 1, 0)

emit_initial_robot_updates(e) == emit_initial_from(e, 1, current_sim_time_s(e))

\* Mutant: the robot's state is not looked at.
apply_ok_any_robot_state(e, job_id, robot_id) ==
    /\ robot_id \in DOMAIN e.robots
    /\ job_id \in DOMAIN e.jobs
    /\ e.jobs[job_id].state \in {"pending", "unassigned"}

\* Mutant: only the ids are looked at.
apply_ok_known_ids(e, job_id, robot_id) ==
    /\ robot_id \in DOMAIN e.robots
    /\ job_id \in DOMAIN e.jobs

\* Mutant: the job's state is not looked at.
apply_ok_any_job_state(e, job_id, robot_id) ==
    /\ robot_id \in DOMAIN e.robots
    /\ job_id \in DOMAIN e.jobs
    /\ e.robots[robot_id].state = "idle"

\* apply_assignment's return value ...
apply_assignment_ok(e, job_id, robot_id) ==
    /\ robot_id \in DOMAIN e.robots
    /\ job_id \in DOMAIN e.jobs
    /\ e.robots[robot_id].state = "idle"
    /\ e.jobs[job_id].state \in {"pending", "unassigned"}

\* ... and the state it leaves.
apply_assignment(e, job_id, robot_id) ==
    IF ~apply_assignment_ok(e, job_id, robot_id)
    THEN e
    ELSE LET job == e.jobs[job_id]
             e1 == [e EXCEPT !.jobs[job_id].state = "assigned",
                             !.jobs[job_id].assigned_robot_id = robot_id,
                             !.jobs[job_id].started_sim_ts = current_sim_time_s(e),
                             !.robots[robot_id].current_job_id = job_id,
                             !.robots[robot_id].target_x = job.pickup_x,
                             !.robots[robot_id].target_y = job.pickup_y,
                             !.robots[robot_id].phase_remaining_s = 0,
                             !.robots[robot_id].state = "moving_to_pickup"]
         IN emit_robot_updated(e1, robot_id, current_sim_time_s(e1), TRUE)

Moving(state) == state \in {"moving_to_pickup", "moving_to_dropoff"}

\* Mutant: a charged robot always goes idle.
resume_idle(e, rid) == "idle"

\* self.resume_state.pop(robot.id, "idle"): the state a charged robot takes.
resume_state_pop(e, rid) ==
    IF e.resume_state[rid] = "none" THEN "idle" ELSE e.resume_state[rid]

\* Mutant: an empty battery does not count as depleted.
depleted_strict(battery) == battery < 0

\* robot.battery <= 0.0
depleted(battery) == battery <= 0

\* Mutant: the drain is not clamped at 0.
battery_after_unclamped(battery, travel) == battery - travel * CellBattery

\* max(0.0, robot.battery - travel * 0.1)
battery_after(battery, travel) == Max(0, battery - travel * CellBattery)

\* _advance_robot: one robot, one tick.
advance_robot(e, rid) ==
    LET robot == e.robots[rid]
        charge == cfg.charge_rate \div cfg.tick_hz          \* charge_rate * dt
        service == cfg.service_time_s * cfg.tick_hz         \* service_time_s, in dt
    IN
    IF robot.state = "charging"
    THEN LET b == Min(FullBattery, robot.battery + charge) IN
         IF b >= cfg.charge_resume_threshold
         THEN [e EXCEPT !.robots[rid].battery = b,
                        !.robots[rid].state = resume_state_pop(e, rid),
                        !.resume_state[rid] = "none"]
         ELSE [e EXCEPT !.robots[rid].battery = b]
    ELSE IF depleted(robot.battery) /\ Moving(robot.state)
    THEN [e EXCEPT !.resume_state[rid] = robot.state,
                   !.robots[rid].state = "charging"]
    ELSE IF ~Moving(robot.state)
    THEN e
    ELSE IF robot.current_job_id \notin DOMAIN e.jobs
    THEN [e EXCEPT !.robots[rid].state = "idle",
                   !.robots[rid].current_job_id = NoJob,
                   !.robots[rid].target_x = NoCoord,
                   !.robots[rid].target_y = NoCoord,
                   !.robots[rid].phase_remaining_s = 0]
    ELSE IF robot.target_x = NoCoord \/ robot.target_y = NoCoord
    THEN [e EXCEPT !.robots[rid].state = "idle",
                   !.robots[rid].current_job_id = NoJob]
    ELSE
    LET job_id == robot.current_job_id
        job == e.jobs[job_id]
        dx == robot.target_x - robot.x
        dy == robot.target_y - robot.y
        distance_to_target == hypot(dx, dy)
        step_distance == robot.speed \div cfg.tick_hz       \* speed * dt
        travel == Min(distance_to_target, step_distance)
        moved == IF distance_to_target > 0
                 THEN [robot EXCEPT !.x = @ + (dx * travel) \div distance_to_target,
                                    !.y = @ + (dy * travel) \div distance_to_target,
                                    !.distance_traveled = @ + travel,
                                    !.battery = battery_after(@, travel)]
                 ELSE robot
        e1 == [e EXCEPT !.robots[rid] = moved]
        arrived == distance_to_target <= step_distance
    IN
    IF distance_to_target > 0 /\ depleted(moved.battery)
    THEN [e1 EXCEPT !.resume_state[rid] = moved.state,
                    !.robots[rid].state = "charging"]
    ELSE IF ~arrived
    THEN e1
    ELSE IF moved.state = "moving_to_pickup"
    THEN LET started == IF moved.phase_remaining_s <= 0 THEN service
                        ELSE moved.phase_remaining_s
             phase == Max(0, started - 1)
         IN IF phase > 0
            THEN [e1 EXCEPT !.robots[rid].phase_remaining_s = phase]
            ELSE [e1 EXCEPT !.jobs[job_id].state = "in_progress",
                            !.robots[rid].state = "moving_to_dropoff",
                            !.robots[rid].target_x = job.dropoff_x,
                            !.robots[rid].target_y = job.dropoff_y,
                            !.robots[rid].phase_remaining_s = 0]
    ELSE \* moving_to_dropoff
         LET before == IF e1.dropoff_service_remaining[rid] = NoTime THEN service
                       ELSE e1.dropoff_service_remaining[rid]
             remaining == Max(0, before - 1)
             completion_time == current_sim_time_s(e1)
         IN IF remaining > 0
            THEN [e1 EXCEPT !.dropoff_service_remaining[rid] = remaining]
            ELSE [e1 EXCEPT !.dropoff_service_remaining[rid] = NoTime,
                            !.jobs[job_id].state = "completed",
                            !.jobs[job_id].completed_sim_ts = completion_time,
                            !.jobs[job_id].lateness_s =
                                Max(0, completion_time - job.deadline_ts),
                            !.robots[rid].state = "idle",
                            !.robots[rid].current_job_id = NoJob,
                            !.robots[rid].target_x = NoCoord,
                            !.robots[rid].target_y = NoCoord,
                            !.robots[rid].phase_remaining_s = 0]

\* Mutant: a state change is emitted like a position update, throttled.
RECURSIVE step_from_throttled(_, _, _)
step_from_throttled(e, rid, sim_time_s) ==
    IF rid \notin DOMAIN e.robots
    THEN e
    ELSE LET e1 == advance_robot(e, rid)
             e2 == IF cfg.emit_position_updates
                   THEN emit_robot_updated(e1, rid, sim_time_s, FALSE)
                   ELSE e1
         IN step_from_throttled(e2, rid + 1, sim_time_s)

\* step's loop body for robots rid, rid + 1, ... in ascending id order.
RECURSIVE step_from(_, _, _)
step_from(e, rid, sim_time_s) ==
    IF rid \notin DOMAIN e.robots
    THEN e
    ELSE LET prev_state == e.robots[rid].state
             e1 == advance_robot(e, rid)
             e2 == IF e1.robots[rid].state # prev_state
                   THEN emit_robot_updated(e1, rid, sim_time_s, TRUE)
                   ELSE IF cfg.emit_position_updates
                   THEN emit_robot_updated(e1, rid, sim_time_s, FALSE)
                   ELSE e1
         IN step_from(e2, rid + 1, sim_time_s)

\* Mutant: the tick counter is left where it is.
tick_stuck(t) == t

tick_advance(t) == t + 1

step(e) ==
    LET e1 == step_from(e, 1, current_sim_time_s(e))
    IN [e1 EXCEPT !.tick = tick_advance(e1.tick)]

Terminal(state) == state \in {"completed", "failed"}

should_stop(e) ==
    \/ current_sim_time_s(e) >= cfg.max_sim_seconds
    \/ \A j \in DOMAIN e.jobs : Terminal(e.jobs[j].state)

\* Mutant: only the jobs no robot has taken fail.
finalize_untaken_only(e) ==
    LET sim_time_s == current_sim_time_s(e) IN
    [e EXCEPT !.jobs =
        [j \in DOMAIN e.jobs |->
            IF e.jobs[j].state \in {"pending", "unassigned"}
            THEN [e.jobs[j] EXCEPT !.state = "failed",
                                   !.completed_sim_ts = sim_time_s,
                                   !.lateness_s = Max(0, sim_time_s - e.jobs[j].deadline_ts)]
            ELSE e.jobs[j]]]

\* Mutant: finalize fails every job, the completed ones too.
finalize_everything(e) ==
    LET sim_time_s == current_sim_time_s(e) IN
    [e EXCEPT !.jobs =
        [j \in DOMAIN e.jobs |->
            [e.jobs[j] EXCEPT !.state = "failed",
                              !.completed_sim_ts = sim_time_s,
                              !.lateness_s = Max(0, sim_time_s - e.jobs[j].deadline_ts)]]]

\* finalize: every job still active fails at the current sim time.
finalize(e) ==
    LET sim_time_s == current_sim_time_s(e) IN
    [e EXCEPT !.jobs =
        [j \in DOMAIN e.jobs |->
            IF e.jobs[j].state \in {"pending", "unassigned", "assigned", "in_progress"}
            THEN [e.jobs[j] EXCEPT !.state = "failed",
                                   !.completed_sim_ts = sim_time_s,
                                   !.lateness_s = Max(0, sim_time_s - e.jobs[j].deadline_ts)]
            ELSE e.jobs[j]]]

\* compute_metrics: the job counts and the number of jobs completed by their
\* deadline.
compute_metrics(js) ==
    [total_jobs |-> Cardinality(DOMAIN js),
     completed_jobs |-> Cardinality({j \in DOMAIN js : js[j].state = "completed"}),
     failed_jobs |-> Cardinality({j \in DOMAIN js : js[j].state = "failed"}),
     on_time |-> Cardinality({j \in DOMAIN js :
                    /\ js[j].state = "completed"
                    /\ Max(0, js[j].completed_sim_ts) <= js[j].deadline_ts})]

\* ------------------------------------------------------------ sim-runner
\* The job.created payloads, in the order of the job id strings.
job_created_events(js) ==
    LET ids == Sorted(DOMAIN js, JobIdLess) IN
    [i \in 1..Len(ids) |->
        [job_id |-> ids[i], sim_time_s |-> 0,
         pickup_x |-> js[ids[i]].pickup_x, pickup_y |-> js[ids[i]].pickup_y,
         dropoff_x |-> js[ids[i]].dropoff_x, dropoff_y |-> js[ids[i]].dropoff_y,
         deadline_ts |-> js[ids[i]].deadline_ts, priority |-> js[ids[i]].priority,
         state |-> js[ids[i]].state]]

\* job.completed / job.failed payloads for the jobs in ids, in list order.
job_terminal_events(js, ids, event_type, sim_time_s) ==
    LET order == Sorted(ids, LAMBDA a, b : a < b) IN
    [i \in 1..Len(order) |->
        [event_type |-> event_type, job_id |-> order[i], sim_time_s |-> sim_time_s,
         robot_id |-> js[order[i]].assigned_robot_id,
         lateness_s |-> js[order[i]].lateness_s]]

\* Mutant: the loop takes one message and leaves the rest for later ticks.
RECURSIVE drain_head_only(_, _, _, _)
drain_head_only(e, queue, i, refused) ==
    IF i > Len(queue) \/ i > 1
    THEN [engine |-> e, refused |-> refused]
    ELSE LET job_id == queue[i].job_id
             robot_id == queue[i].robot_id
         IN drain_head_only(apply_assignment(e, job_id, robot_id), queue, i + 1,
                  IF apply_assignment_ok(e, job_id, robot_id)
                  THEN refused
                  ELSE refused \cup {[job_id |-> job_id, robot_id |-> robot_id]})

\* The drain loop over queue[i..]: the engine afterwards, and the messages
\* for which apply_assignment returned False.
RECURSIVE drain(_, _, _, _)
drain(e, queue, i, refused) ==
    IF i > Len(queue)
    THEN [engine |-> e, refused |-> refused]
    ELSE LET job_id == queue[i].job_id
             robot_id == queue[i].robot_id
         IN drain(apply_assignment(e, job_id, robot_id), queue, i + 1,
                  IF apply_assignment_ok(e, job_id, robot_id)
                  THEN refused
                  ELSE refused \cup {[job_id |-> job_id, robot_id |-> robot_id]})

\* publish_event for each payload in msgs, in order.
publish_events(ex, routing_key, msgs) == [ex EXCEPT ![routing_key] = @ \o msgs]

\* _flush_robot_updates: the buffered payloads go to the exchange in order
\* and leave the buffer.
flush_robot_updates(e, ex) ==
    [engine |-> [e EXCEPT !.robot_events = <<>>],
     exchange |-> publish_events(ex, "robot_updated", e.robot_events)]

\* The jobs whose state differs from previous_job_states and is completed.
\* Mutant: every completed job is reported in every iteration, not only the
\* ones whose state differs from previous_job_states.
newly_completed_all(e, previous) ==
    {j \in DOMAIN e.jobs : e.jobs[j].state = "completed"}

newly_completed(e, previous) ==
    {j \in DOMAIN e.jobs : previous[j] # e.jobs[j].state /\ e.jobs[j].state = "completed"}

NoExchange == [run_started |-> <<>>, job_created |-> <<>>, robot_updated |-> <<>>,
               job_terminal |-> <<>>, run_completed |-> <<>>]

\* -------------------------------------------------------------- baseline
\* The squared Euclidean distance: _distance(...) is its square root, and the
\* code only compares distances.
distance2(ax, ay, bx, by) == (ax - bx) * (ax - bx) + (ay - by) * (ay - by)

\* The sort key (deadline_ts, -priority, id) of pending jobs.
JobKeyLess(js, a, b) ==
    \/ js[a].deadline_ts < js[b].deadline_ts
    \/ /\ js[a].deadline_ts = js[b].deadline_ts
       /\ \/ js[a].priority > js[b].priority
          \/ js[a].priority = js[b].priority /\ JobIdLess(a, b)

\* The sort key (job_id, robot_id) of assignments.
AssignmentLess(a, b) ==
    \/ JobIdLess(a.job_id, b.job_id)
    \/ a.job_id = b.job_id /\ a.robot_id < b.robot_id

\* Mutant: already_assigned is not looked at.
pending_job_ids_all(js, already_assigned) ==
    {j \in DOMAIN js : js[j].state \in {"pending", "unassigned"}}

pending_job_ids(js, already_assigned) ==
    {j \in DOMAIN js : js[j].state \in {"pending", "unassigned"} /\ j \notin already_assigned}

\* Mutant: no fallback when the battery filter leaves no robot.
idle_robot_ids_no_fallback(rs, pending, blocked_robots, battery_threshold) ==
    {r \in DOMAIN rs : /\ rs[r].state = "idle"
                       /\ r \notin blocked_robots
                       /\ rs[r].battery >= battery_threshold}

\* idle_robots, with the fallback to every idle, non-blocked robot.
idle_robot_ids(rs, pending, blocked_robots, battery_threshold) ==
    LET idle_robots == {r \in DOMAIN rs : /\ rs[r].state = "idle"
                                          /\ r \notin blocked_robots
                                          /\ rs[r].battery >= battery_threshold}
    IN IF idle_robots = {} /\ pending # {}
       THEN {r \in DOMAIN rs : rs[r].state = "idle" /\ r \notin blocked_robots}
       ELSE idle_robots

\* Mutant: of two robots at the same distance the later one wins.
RECURSIVE best_robot_last_wins(_, _, _, _, _, _, _)
best_robot_last_wins(rs, job, idle_robots, i, used_robots, best_robot, best_distance) ==
    IF i > Len(idle_robots) THEN best_robot
    ELSE LET robot_id == idle_robots[i]
             d == distance2(rs[robot_id].x, rs[robot_id].y, job.pickup_x, job.pickup_y)
         IN IF robot_id \in used_robots
            THEN best_robot_last_wins(rs, job, idle_robots, i + 1, used_robots,
                                      best_robot, best_distance)
            ELSE IF best_robot = NoRobot \/ d <= best_distance
            THEN best_robot_last_wins(rs, job, idle_robots, i + 1, used_robots, robot_id, d)
            ELSE best_robot_last_wins(rs, job, idle_robots, i + 1, used_robots,
                                      best_robot, best_distance)

\* The inner loop over idle_robots[i..]: the best robot so far and its distance
\* (best_robot = NoRobot stands for best_distance = inf).
RECURSIVE best_robot_from(_, _, _, _, _, _, _)
best_robot_from(rs, job, idle_robots, i, used_robots, best_robot, best_distance) ==
    IF i > Len(idle_robots) THEN best_robot
    ELSE LET robot_id == idle_robots[i]
             d == distance2(rs[robot_id].x, rs[robot_id].y, job.pickup_x, job.pickup_y)
         IN IF robot_id \in used_robots
            THEN best_robot_from(rs, job, idle_robots, i + 1, used_robots,
                                 best_robot, best_distance)
            ELSE IF \/ best_robot = NoRobot
                    \/ d < best_distance
                    \/ d = best_distance /\ robot_id < best_robot
            THEN best_robot_from(rs, job, idle_robots, i + 1, used_robots, robot_id, d)
            ELSE best_robot_from(rs, job, idle_robots, i + 1, used_robots,
                                 best_robot, best_distance)

\* The outer loop over pending_jobs[k..].
RECURSIVE assign_from(_, _, _, _, _, _, _)
assign_from(rs, js, pending_jobs, idle_robots, k, used_robots, assignments) ==
    IF k > Len(pending_jobs) THEN assignments
    ELSE LET job_id == pending_jobs[k]
             best_robot == best_robot_from(rs, js[job_id], idle_robots, 1, used_robots,
                                           NoRobot, 0)
         IN IF best_robot = NoRobot
            THEN assign_from(rs, js, pending_jobs, idle_robots, k + 1, used_robots, assignments)
            ELSE assign_from(rs, js, pending_jobs, idle_robots, k + 1,
                             used_robots \cup {best_robot},
                             Append(assignments,
                                    [job_id |-> job_id, robot_id |-> best_robot,
                                     reason |-> "baseline_edf_nearest"]))

compute_baseline_assignments(rs, js, already_assigned, blocked_robots, battery_threshold) ==
    LET pending == pending_job_ids(js, already_assigned)
        idle == idle_robot_ids(rs, pending, blocked_robots, battery_threshold)
        pending_jobs == Sorted(pending, LAMBDA a, b : JobKeyLess(js, a, b))
        idle_robots == Sorted(idle, LAMBDA a, b : a < b)
        assignments == assign_from(rs, js, pending_jobs, idle_robots, 1, {}, <<>>)
    IN Sorted({assignments[i] : i \in 1..Len(assignments)}, AssignmentLess)

BaseUnused ==
    /\ base_in = "none"
    /\ base_out = "none"

FnUnused ==
    /\ fn_in = "none"
    /\ fn_out = "none"

\* ------------------------------------------------------------ dispatcher
\* dict[k] = v, dict.pop(k, None) and dict.get(k, default) on functions.
Put(f, k, v) == [x \in DOMAIN f \cup {k} |-> IF x = k THEN v ELSE f[x]]
Pop(f, k) == [x \in DOMAIN f \ {k} |-> f[x]]
Get(f, k, default) == IF k \in DOMAIN f THEN f[k] ELSE default

\* asyncio.Lock: acquire() takes a lock that is free with nobody waiting at
\* once, without yielding, and queues otherwise; release() hands the lock to
\* the longest waiter.
FreeLock == [holder |-> 0, waiters |-> <<>>]

acquire(lock, self) ==
    IF lock.holder = 0 /\ lock.waiters = <<>>
    THEN [lock EXCEPT !.holder = self]
    ELSE [lock EXCEPT !.waiters = Append(@, self)]

release(lock) ==
    IF lock.waiters = <<>> THEN FreeLock
    ELSE [holder |-> Head(lock.waiters), waiters |-> Tail(lock.waiters)]

\* RunState(...) as _handle_run_started builds it.  RunState.lock is left
\* out: nothing is awaited while it is held, so no task ever waits for it.
RunState(mode) ==
    [mode |-> mode, robots |-> <<>>, jobs |-> <<>>, assigned_jobs |-> {},
     pending_assignments |-> <<>>, planned_queues |-> <<>>,
     optimizer_in_flight |-> FALSE,
     next_periodic_replan_sim_s |->
        IF ga_replan_interval_s > 0 THEN ga_replan_interval_s ELSE NoTime,
     last_baseline_dispatch_sim_s |-> NoTime,
     baseline_lock |-> FreeLock, assign_lock |-> FreeLock]

\* A RunState no task and no entry of self.states refers to any more.
DeadRunState == RunState("dead")

\* A handler task: where it is (pc), the locals of _handle_robot_updated, and
\* the locals of the calls it is in.  ctx is the caller of the current
\* _emit_assignment / _emit_planned_for_idle_robot, after is where the handler
\* goes on when the current _replan_ga returns.
FreeTask ==
    [pc |-> "free", gen |-> 0, robot_id |-> NoRobot, sim_time_s |-> 0,
     new_state |-> "none", prev_state |-> "none", robot_ok |-> FALSE,
     ctx |-> "none", after |-> "none", job_id |-> NoJob, emit_robot |-> NoRobot,
     assignments |-> <<>>, req_robots |-> {}, req_jobs |-> {}, rp_robots |-> <<>>]

\* The places where a handler is suspended: waiting for baseline_lock, for
\* assign_lock, for publish_event to return, for request_ga_plan to return.
Suspended == {"baseline_lock", "assign_lock", "publish", "optimizer"}

\* _pending_jobs, as a set and in its sorted order.
disp_pending_ids(st) ==
    {j \in DOMAIN st.jobs :
        st.jobs[j].state \in {"pending", "unassigned"} /\ j \notin st.assigned_jobs}

disp_pending_jobs(st) == Sorted(disp_pending_ids(st), LAMBDA a, b : JobKeyLess(st.jobs, a, b))

has_pending_jobs(st) == disp_pending_ids(st) # {}

\* The checks _emit_planned_for_idle_robot and _emit_assignment make on a job.
job_assignable(st, job_id) ==
    /\ job_id \in DOMAIN st.jobs
    /\ job_id \notin st.assigned_jobs
    /\ st.jobs[job_id].state \in {"pending", "unassigned"}

\* The position in queue of the first job the while loop of
\* _emit_planned_for_idle_robot does not skip, 0 if it skips them all.
first_assignable(st, queue) ==
    IF \E i \in 1..Len(queue) : job_assignable(st, queue[i])
    THEN CHOOSE i \in 1..Len(queue) :
            /\ job_assignable(st, queue[i])
            /\ \A k \in 1..(i - 1) : ~job_assignable(st, queue[k])
    ELSE 0

\* The robots _replan_ga sends to the optimizer.
eligible_robots(st) ==
    {r \in DOMAIN st.robots :
        st.robots[r].state # "charging" /\ st.robots[r].battery >= settings_battery_threshold}

\* request_ga_plan's result for a plan (job -> robot): one item per job,
\* sorted by (job_id, robot_id).
plan_items(plan) ==
    LET ids == Sorted(DOMAIN plan, JobIdLess) IN
    [i \in 1..Len(ids) |-> [job_id |-> ids[i], robot_id |-> plan[ids[i]]]]

\* Mutant: the plan is queued as the optimizer sent it.
RECURSIVE new_queues_unfiltered(_, _, _, _)
new_queues_unfiltered(st, items, i, new_queues) ==
    IF i > Len(items) THEN new_queues
    ELSE IF items[i].robot_id \notin DOMAIN new_queues
         THEN new_queues_unfiltered(st, items, i + 1, new_queues)
         ELSE new_queues_unfiltered(st, items, i + 1,
                [new_queues EXCEPT ![items[i].robot_id] = Append(@, items[i].job_id)])

\* new_queues of _replan_ga after the items[i..] of the plan.
RECURSIVE new_queues_from(_, _, _, _)
new_queues_from(st, items, i, new_queues) ==
    IF i > Len(items) THEN new_queues
    ELSE LET job_id == items[i].job_id
             robot_id == items[i].robot_id
         IN IF \/ ~job_assignable(st, job_id)
               \/ robot_id \notin DOMAIN new_queues
               \/ \E k \in 1..Len(new_queues[robot_id]) : new_queues[robot_id][k] = job_id
            THEN new_queues_from(st, items, i + 1, new_queues)
            ELSE new_queues_from(st, items, i + 1,
                    [new_queues EXCEPT ![robot_id] = Append(@, job_id)])

\* Mutant: no update is set aside.
update_ignored_never(pending_job_id, ev) == FALSE

\* The early return of lines 184-191: an assignment is pending for the robot,
\* the update does not confirm it, and it reports idle with no current job.
update_ignored(pending_job_id, ev) ==
    /\ pending_job_id # NoJob
    /\ ~(ev.current_job_id = pending_job_id \/ ev.state # "idle")
    /\ ev.state = "idle"
    /\ ev.current_job_id = NoJob

\* _handle_robot_updated up to the mode switch (lines 179-211).  ignored is
\* the early return on an idle update while an assignment is pending.
ingest_robot_updated(st, ev) ==
    LET robot_id == ev.robot_id
        pending_job_id == Get(st.pending_assignments, robot_id, NoJob)
        confirmed == pending_job_id # NoJob
                     /\ (ev.current_job_id = pending_job_id \/ ev.state # "idle")
        ignored == update_ignored(pending_job_id, ev)
        st1 == IF confirmed
               THEN [st EXCEPT !.pending_assignments = Pop(@, robot_id)]
               ELSE st
        st2 == [st1 EXCEPT !.robots = Put(@, robot_id,
                    [x |-> ev.x, y |-> ev.y, speed |-> ev.speed, battery |-> ev.battery,
                     state |-> ev.state, current_job_id |-> ev.current_job_id,
                     sim_time_s |-> ev.sim_time_s])]
        st3 == IF ev.state = "charging" \/ ev.battery < settings_battery_threshold
               THEN [st2 EXCEPT
                        !.planned_queues =
                            IF Get(@, robot_id, <<>>) # <<>> THEN Put(@, robot_id, <<>>)
                            ELSE @,
                        !.pending_assignments = Pop(@, robot_id)]
               ELSE st2
    IN [ignored |-> ignored,
        st |-> IF ignored THEN st ELSE st3,
        prev_state |-> IF robot_id \in DOMAIN st.robots THEN st.robots[robot_id].state
                       ELSE "none",
        robot_ok |-> ev.state = "idle" /\ ev.battery >= settings_battery_threshold]

\* _handle_job_created: the job as the dispatcher records it.
ingest_job_created(st, ev) ==
    [st EXCEPT !.jobs = Put(@, ev.job_id,
        [pickup_x |-> ev.pickup_x, pickup_y |-> ev.pickup_y,
         dropoff_x |-> ev.dropoff_x, dropoff_y |-> ev.dropoff_y,
         deadline_ts |-> ev.deadline_ts, priority |-> ev.priority, state |-> ev.state])]

\* Leaving _emit_assignment / _emit_planned_for_idle_robot: back to the caller.
emit_return(task) ==
    [task EXCEPT !.job_id = NoJob, !.emit_robot = NoRobot,
                 !.pc = IF task.ctx = "baseline" THEN "baseline_loop"
                        ELSE IF task.ctx = "replan" THEN "replan_loop"
                        ELSE "periodic_check"]

\* Mutant: _emit_assignment records nothing.
emit_bookkeeping_skipped(st, job_id, robot_id) == st

\* _emit_assignment after publish_event has returned (lines 406-411).
emit_bookkeeping(st, job_id, robot_id) ==
    [st EXCEPT !.assigned_jobs = @ \cup {job_id},
               !.jobs[job_id].state = "assigned",
               !.robots =
                   IF robot_id \in DOMAIN @
                   THEN [@ EXCEPT ![robot_id].state = "moving_to_pickup",
                                  ![robot_id].current_job_id = job_id]
                   ELSE @,
               !.pending_assignments = Put(@, robot_id, job_id)]

\* Mutant: no caller looks at optimizer_in_flight.
optimizer_busy_never(st) == FALSE

\* state.optimizer_in_flight as the triggers of _handle_robot_updated and
\* _replan_ga itself read it (lines 226, 237, 245, 292).
optimizer_busy(st) == st.optimizer_in_flight

\* Mutant: _replan_ga without its finally.
replan_finally_skipped(st) == st

\* The finally of _replan_ga (line 345).
replan_finally(st) == [st EXCEPT !.optimizer_in_flight = FALSE]

\* Leaving _replan_ga: back to the handler.
replan_return(task) ==
    [task EXCEPT !.pc = task.after, !.after = "none", !.ctx = "none",
                 !.req_robots = {}, !.req_jobs = {}, !.rp_robots = <<>>]

\* Entering _replan_ga from the handler.
replan_call(task, after) ==
    [task EXCEPT !.pc = "replan", !.after = after, !.ctx = "none"]

\* Mutant: the slot is left where it was.
next_periodic_kept(next, sim_time_s) == next

\* next_periodic_replan_sim_s after the while loop that follows a periodic
\* replan: the interval is added until the value is past sim_time_s.
next_periodic_after(next, sim_time_s) ==
    IF next # NoTime /\ next <= sim_time_s
    THEN next + (((sim_time_s - next) \div ga_replan_interval_s) + 1) * ga_replan_interval_s
    ELSE next

\* One stretch of a handler's code between two code points.  c.st is the
\* RunState the handler holds, c.task the task, c.self its id, c.plan the
\* optimizer's answer where the task resumes from request_ga_plan (c.failed:
\* the call raised), c.out the job.assigned payload handed to publish_event,
\* c.ran the sim_time_s for which _dispatch_baseline was entered, c.calls the
\* reasons with which the stretch called _replan_ga.
advance(c) ==
    LET st == c.st
        task == c.task
        pc == task.pc
    IN
    \* _dispatch_baseline_once_per_tick, lines 281-283
    IF pc = "baseline_once"
    THEN IF st.last_baseline_dispatch_sim_s = task.sim_time_s
         THEN [c EXCEPT !.task.pc = "end"]
         ELSE LET lock == acquire(st.baseline_lock, c.self) IN
              [c EXCEPT !.st.baseline_lock = lock,
                        !.task.pc = IF lock.holder = c.self THEN "baseline_locked"
                                    ELSE "baseline_lock"]
    \* lines 284-287 and _dispatch_baseline, lines 269-275
    ELSE IF pc = "baseline_locked"
    THEN IF st.last_baseline_dispatch_sim_s = task.sim_time_s
         THEN [c EXCEPT !.st.baseline_lock = release(@), !.task.pc = "end"]
         ELSE [c EXCEPT !.st.last_baseline_dispatch_sim_s = task.sim_time_s,
                        !.ran = Append(@, task.sim_time_s),
                        !.task.assignments =
                            compute_baseline_assignments(st.robots, st.jobs,
                                st.assigned_jobs, DOMAIN st.pending_assignments,
                                settings_battery_threshold),
                        !.task.ctx = "baseline",
                        !.task.pc = "baseline_loop"]
    \* _dispatch_baseline, lines 276-277, and the end of the async with
    ELSE IF pc = "baseline_loop"
    THEN IF task.assignments = <<>>
         THEN [c EXCEPT !.st.baseline_lock = release(@),
                        !.task.ctx = "none", !.task.pc = "end"]
         ELSE [c EXCEPT !.task.job_id = Head(task.assignments).job_id,
                        !.task.emit_robot = Head(task.assignments).robot_id,
                        !.task.assignments = Tail(@),
                        !.task.pc = "emit_assignment"]
    \* _emit_planned_for_idle_robot, lines 354-369
    ELSE IF pc = "emit_planned"
    THEN LET r == task.emit_robot
             queue == Get(st.planned_queues, r, <<>>)
             k == first_assignable(st, queue)
         IN IF \/ r \notin DOMAIN st.robots
               \/ st.robots[r].state # "idle"
               \/ st.robots[r].battery < settings_battery_threshold
               \/ queue = <<>>
            THEN [c EXCEPT !.task = emit_return(task)]
            ELSE IF k = 0
            THEN [c EXCEPT !.st.planned_queues[r] = <<>>, !.task = emit_return(task)]
            ELSE [c EXCEPT !.st.planned_queues[r] = SubSeq(queue, k + 1, Len(queue)),
                           !.task.job_id = queue[k],
                           !.task.pc = "emit_assignment"]
    \* _emit_assignment, line 377
    ELSE IF pc = "emit_assignment"
    THEN IF c.exchange_none
         THEN [c EXCEPT !.task = emit_return(task)]
         ELSE LET lock == acquire(st.assign_lock, c.self) IN
              [c EXCEPT !.st.assign_lock = lock,
                        !.task.pc = IF lock.holder = c.self THEN "emit_locked"
                                    ELSE "assign_lock"]
    \* lines 378-404
    ELSE IF pc = "emit_locked"
    THEN IF ~job_assignable(st, task.job_id)
         THEN [c EXCEPT !.st.assign_lock = release(@), !.task = emit_return(task)]
         ELSE [c EXCEPT !.out = Append(@, [job_id |-> task.job_id,
                                           robot_id |-> task.emit_robot,
                                           sim_time_s |-> task.sim_time_s]),
                        !.task.pc = "publish"]
    \* lines 405-411 and the end of the async with
    ELSE IF pc = "emit_published"
    THEN [c EXCEPT !.st = [emit_bookkeeping(st, task.job_id, task.emit_robot)
                              EXCEPT !.assign_lock = release(@)],
                   !.task = emit_return(task)]
    \* publish_event raises at line 405: the async with lets go of assign_lock
    \* and the exception leaves _emit_assignment; inside _replan_ga it is
    \* caught at line 342, elsewhere it ends the handler (baseline_lock is
    \* let go on the way) in the except clause of _on_message.
    ELSE IF pc = "publish_raised"
    THEN IF task.ctx = "replan"
         THEN [c EXCEPT !.st = [replan_finally(st) EXCEPT !.assign_lock = release(@)],
                        !.task = replan_return([task EXCEPT !.job_id = NoJob,
                                                            !.emit_robot = NoRobot])]
         ELSE IF task.ctx = "baseline"
         THEN [c EXCEPT !.st.assign_lock = release(@),
                        !.st.baseline_lock = release(@),
                        !.task.pc = "end"]
         ELSE [c EXCEPT !.st.assign_lock = release(@), !.task.pc = "end"]
    \* _handle_robot_updated, lines 221-230
    ELSE IF pc = "periodic_check"
    THEN IF /\ ga_replan_interval_s > 0
            /\ st.next_periodic_replan_sim_s # NoTime
            /\ task.sim_time_s >= st.next_periodic_replan_sim_s
            /\ has_pending_jobs(st)
            /\ ~optimizer_busy(st)
         THEN [c EXCEPT !.task = replan_call(task, "periodic_after"),
                        !.calls = Append(@, "periodic")]
         ELSE [c EXCEPT !.task.ctx = "none", !.task.pc = "idle_gap_check"]
    ELSE IF pc = "periodic_after"
    THEN [c EXCEPT !.st.next_periodic_replan_sim_s =
                        next_periodic_after(st.next_periodic_replan_sim_s, task.sim_time_s),
                   !.task.pc = "idle_gap_check"]
    \* lines 232-240
    ELSE IF pc = "idle_gap_check"
    THEN IF /\ task.prev_state # "idle" /\ task.new_state = "idle"
            /\ Get(st.planned_queues, task.robot_id, <<>>) = <<>>
            /\ has_pending_jobs(st)
            /\ ~optimizer_busy(st)
         THEN [c EXCEPT !.task = replan_call(task, "battery_guard_check"),
                        !.calls = Append(@, "idle_gap")]
         ELSE [c EXCEPT !.task.pc = "battery_guard_check"]
    \* lines 242-248
    ELSE IF pc = "battery_guard_check"
    THEN IF /\ ~task.robot_ok
            /\ has_pending_jobs(st)
            /\ ~optimizer_busy(st)
            /\ Get(st.planned_queues, task.robot_id, <<>>) # <<>>
         THEN [c EXCEPT !.task = replan_call(task, "end"),
                        !.calls = Append(@, "battery_guard")]
         ELSE [c EXCEPT !.task.pc = "end"]
    \* _replan_ga, lines 291-308
    ELSE IF pc = "replan"
    THEN IF optimizer_busy(st)
         THEN [c EXCEPT !.task = replan_return(task)]
         ELSE IF disp_pending_ids(st) = {} \/ eligible_robots(st) = {}
         THEN [c EXCEPT !.st = replan_finally(st),
                        !.task = replan_return(task)]
         ELSE [c EXCEPT !.st.optimizer_in_flight = TRUE,
                        !.task.req_robots = eligible_robots(st),
                        !.task.req_jobs = disp_pending_ids(st),
                        !.task.pc = "optimizer"]
    \* lines 318-341, or the except branch when the optimizer call failed
    ELSE IF pc = "optimizer_reply"
    THEN IF c.failed
         THEN [c EXCEPT !.st = replan_finally(st),
                        !.task = replan_return(task)]
         ELSE [c EXCEPT !.st.planned_queues =
                            new_queues_from(st, plan_items(c.plan), 1,
                                            [r \in task.req_robots |-> <<>>]),
                        !.task.rp_robots = Sorted(DOMAIN st.robots, LAMBDA a, b : a < b),
                        !.task.ctx = "replan",
                        !.task.pc = "replan_loop"]
    \* _emit_planned_for_idle_robots, lines 349-350, and the finally of _replan_ga
    ELSE IF pc = "replan_loop"
    THEN IF task.rp_robots = <<>>
         THEN [c EXCEPT !.st = replan_finally(st),
                        !.task = replan_return(task)]
         ELSE [c EXCEPT !.task.emit_robot = Head(task.rp_robots),
                        !.task.rp_robots = Tail(@),
                        !.task.pc = "emit_planned"]
    ELSE c

\* A handler runs until it is suspended or returns.
RECURSIVE run_task(_)
run_task(c) ==
    IF c.task.pc \in Suspended \cup {"end"} THEN c ELSE run_task(advance(c))

\* ------------------------------------------- scenarios and configurations
\* SimulationEngine(...) parameters; charge_rate is a whole number of percent
\* per tick.
Config(tick_hz, service_time_s, max_sim_seconds) ==
    [tick_hz |-> tick_hz, service_time_s |-> service_time_s,
     max_sim_seconds |-> max_sim_seconds, emit_position_updates |-> TRUE,
     charge_rate |-> 10 * tick_hz,
     charge_resume_threshold |-> ChargeResumeThreshold,
     ga_replan_interval_s |-> 0,
     battery_threshold |-> BatteryThreshold]

\* Robots on the x axis, alternately at 0 and MaxCoord, one cell per tick.
LineRobots(tick_hz, batteries) ==
    [r \in RobotIds |->
        Robot(IF r % 2 = 1 THEN 0 ELSE MaxCoord, 0, tick_hz, batteries[r])]

\* Jobs on the x axis: job 1 anywhere (its deadline is its dropoff coordinate),
\* the others from pickup 1 to dropoff 0.
LineJobs(p1, d1) ==
    [j \in JobIds |->
        IF j = 1 THEN Job(p1, 0, d1, 0, d1, 3)
        ELSE Job(1, 0, 0, 0, 1, 1 + (j % 5))]

\* (tick_hz, service_time_s) pairs: dt = 1 s without service time, dt = 0.5 s
\* with a service time of two ticks.
EngineConfigs == {<<1, 0>>, <<2, 1>>}

EngineScenarios ==
    { <<Config(c[1], c[2], MaxTicks),
        NewEngine(LineRobots(c[1], [r \in RobotIds |-> IF r = 1 THEN b ELSE FullBattery]),
                  LineJobs(p, d))>> :
        c \in EngineConfigs, b \in {FullBattery, CellBattery},
        p \in 0..MaxCoord, d \in {0, MaxCoord} }

NoCall == [op |-> "none", ret |-> FALSE]

\* ---------------------------------- compute_baseline_assignments on its own
ShadowRobot(x, y, battery, state) ==
    [x |-> x, y |-> y, battery |-> battery, state |-> state]

ShadowJob(pickup_x, pickup_y, deadline_ts, priority, state) ==
    [pickup_x |-> pickup_x, pickup_y |-> pickup_y, deadline_ts |-> deadline_ts,
     priority |-> priority, state |-> state]

\* "ok": idle at the threshold, "low": idle just below it, "busy": not idle.
KindRobot(r, kind) ==
    ShadowRobot(IF r % 2 = 1 THEN 0 ELSE MaxCoord, 0,
                IF kind = "low" THEN BatteryThreshold - 1
                ELSE IF kind = "ok" THEN BatteryThreshold ELSE FullBattery,
                IF kind = "busy" THEN "moving_to_pickup" ELSE "idle")

\* The jobs are "job_10", "job_2", "job_3", ...: the first is named 10.
BaseJobName(k) == IF k = 1 THEN 10 ELSE k
BaseJobIds == {BaseJobName(k) : k \in JobIds}

BaselineInputs ==
    { [robots |-> [r \in RobotIds |-> KindRobot(r, IF r = 1 THEN k1
                                                   ELSE IF r = 2 THEN k2 ELSE "ok")],
       jobs |-> [j \in BaseJobIds |->
                    IF j = 10 THEN ShadowJob(px, py, 1, 1, s1)
                    ELSE IF j = 2 THEN ShadowJob(qx, 0, key[1], key[2], s2)
                    ELSE ShadowJob(1, 1, 2, 1, "pending")],
       already_assigned |-> aa,
       blocked_robots |-> bl,
       battery_threshold |-> BatteryThreshold] :
        k1 \in {"ok", "low", "busy"}, k2 \in {"ok", "low", "busy"},
        px \in 0..MaxCoord, py \in {0, 1}, s1 \in {"pending", "assigned"},
        qx \in 0..MaxCoord, key \in {<<1, 1>>, <<1, 2>>, <<0, 1>>},
        s2 \in {"pending", "unassigned"},
        aa \in {{}, {2}}, bl \in SUBSET {1, NumRobots} }

\* ----------------------------------------------------- optimizer-service
\* Robots and jobs move on the x axis here, so that hypot is a difference;
\* speeds are 1 or 2.  Times are counted in half seconds, batteries in tenths
\* of a percent and scores in their own unit, which keeps the arithmetic of
\* evaluate_chromosome exact.
GaRobot(id, x, speed, battery) ==
    [id |-> id, x |-> x, y |-> 0, speed |-> speed, battery |-> battery]

GaJob(id, pickup_x, dropoff_x, deadline_ts, priority) ==
    [id |-> id, pickup_x |-> pickup_x, pickup_y |-> 0, dropoff_x |-> dropoff_x,
     dropoff_y |-> 0, deadline_ts |-> deadline_ts, priority |-> priority]

\* _distance, for points on one axis-parallel line.
distance(ax, ay, bx, by) == Abs(ax - bx) + Abs(ay - by)

\* sorted_jobs: by (deadline_ts, -priority, id).
sorted_jobs(js) ==
    LET less(a, b) ==
            \/ js[a].deadline_ts < js[b].deadline_ts
            \/ /\ js[a].deadline_ts = js[b].deadline_ts
               /\ \/ js[a].priority > js[b].priority
                  \/ js[a].priority = js[b].priority /\ js[a].id < js[b].id
        order == Sorted(DOMAIN js, less)
    IN [i \in 1..Len(order) |-> js[order[i]]]

\* Mutant: no job is ever late.
lateness_ignored(completion_time, deadline_ts) == 0

\* max(0.0, completion_time - job.deadline_ts), in half seconds.
lateness(completion_time, deadline_ts) == Max(0, completion_time - 2 * deadline_ts)

\* The battery penalty for a battery_after in tenths of a percent.
battery_penalty(after) ==
    IF after < 0 THEN 500 + Abs(after) * 10
    ELSE IF after < 100 THEN 200
    ELSE 0

\* The loop of evaluate_chromosome from job idx on.  acc holds robot_time,
\* robot_pos, robot_battery, robot_job_count, total_score and job_scores.
RECURSIVE evaluate_from(_, _, _, _, _, _)
evaluate_from(chromosome, rs, ordered, service_time_s, idx, acc) ==
    IF idx > Len(ordered) THEN [score |-> acc.total_score, job_scores |-> acc.job_scores]
    ELSE LET job == ordered[idx]
             r == (chromosome[idx] % Len(rs)) + 1
             dist == distance(acc.robot_pos[r][1], acc.robot_pos[r][2],
                              job.pickup_x, job.pickup_y)
                     + distance(job.pickup_x, job.pickup_y, job.dropoff_x, job.dropoff_y)
             travel_time == (2 * dist) \div rs[r].speed
             completion_time == acc.robot_time[r] + travel_time + 2 * (2 * service_time_s)
             after == acc.robot_battery[r] - dist
             load_penalty == acc.robot_job_count[r] * acc.robot_job_count[r] * 30
             job_penalty == lateness(completion_time, job.deadline_ts) * 500
                            + dist * 2
                            + (6 - job.priority) * 3
                            + battery_penalty(after)
                            + load_penalty
         IN evaluate_from(chromosome, rs, ordered, service_time_s, idx + 1,
                [robot_time |-> [acc.robot_time EXCEPT ![r] = completion_time],
                 robot_pos |-> [acc.robot_pos EXCEPT ![r] = <<job.dropoff_x, job.dropoff_y>>],
                 robot_battery |-> [acc.robot_battery EXCEPT ![r] = Max(0, after)],
                 robot_job_count |-> [acc.robot_job_count EXCEPT ![r] = @ + 1],
                 total_score |-> acc.total_score + job_penalty,
                 job_scores |-> Put(acc.job_scores, job.id, job_penalty)])

\* evaluate_chromosome.  1e9 stands as itself.
evaluate_chromosome(chromosome, rs, js, service_time_s) ==
    IF js = <<>> THEN [score |-> 0, job_scores |-> <<>>]
    ELSE IF rs = <<>>
    THEN [score |-> 1000000000,
          job_scores |-> [id \in {js[i].id : i \in DOMAIN js} |-> 1000000000]]
    ELSE evaluate_from(chromosome, rs, sorted_jobs(js), service_time_s, 1,
            [robot_time |-> [r \in DOMAIN rs |-> 0],
             robot_pos |-> [r \in DOMAIN rs |-> <<rs[r].x, rs[r].y>>],
             robot_battery |-> [r \in DOMAIN rs |-> rs[r].battery * 10],
             robot_job_count |-> [r \in DOMAIN rs |-> 0],
             total_score |-> 0,
             job_scores |-> <<>>])

\* random.Random: a generator is its state and whether it is the module-level
\* generator of `random`, which every caller shares.  The stream is a fixed
\* function of the seed; a congruential step stands for the twister's.
rng_step(rng) == [rng EXCEPT !.state = (5 * @ + 3) % RngModulus]

\* Mutant: the optimizer draws from the module-level generator.
module_rng(seed, global_rng) == [state |-> global_rng, shared |-> TRUE]

\* rng = random.Random(seed), a generator of the call's own.
new_rng(seed, global_rng) == [state |-> seed % RngModulus, shared |-> FALSE]

\* The one element of a singleton set.  A name bound over {e} holds the value
\* of e, worked out once, where a LET would work it out at every use.
The(S) == CHOOSE x \in S : TRUE

\* rng.randrange(n) and rng.random() < rate (rate in percent): the value and
\* the generator afterwards.
randrange(rng, n) ==
    The({[value |-> (next.state \div 4) % n, rng |-> next] : next \in {rng_step(rng)}})

random_below(rng, rate) ==
    The({[value |-> (next.state * 100) \div RngModulus < rate, rng |-> next] :
            next \in {rng_step(rng)}})

\* [rng.randrange(n) for _ in range(count)], appended to acc.
RECURSIVE randranges(_, _, _, _)
randranges(rng, n, count, acc) ==
    IF count = 0 THEN [value |-> acc, rng |-> rng]
    ELSE The({randranges(d.rng, n, count - 1, Append(acc, d.value)) :
                d \in {randrange(rng, n)}})

\* initialize_population, chromosome after chromosome.
RECURSIVE initialize_population_from(_, _, _, _, _)
initialize_population_from(population_size, chromosome_len, robot_count, rng, population) ==
    IF Len(population) >= population_size THEN [value |-> population, rng |-> rng]
    ELSE The({initialize_population_from(population_size, chromosome_len, robot_count,
                                         d.rng, Append(population, d.value)) :
                d \in {randranges(rng, robot_count, chromosome_len, <<>>)}})

initialize_population(population_size, chromosome_len, robot_count, rng) ==
    IF chromosome_len = 0 THEN [value |-> <<<<>>>>, rng |-> rng]
    ELSE initialize_population_from(population_size, chromosome_len, robot_count, rng, <<>>)

\* tournament_select with k = 3: the best of three drawn indices by
\* (fitness, index).
tournament_select(population, fitnesses, rng) ==
    The({LET indices == {d.value[i] + 1 : i \in 1..3}
             best_idx == CHOOSE a \in indices : \A b \in indices :
                             \/ fitnesses[a] < fitnesses[b]
                             \/ fitnesses[a] = fitnesses[b] /\ a <= b
         IN [value |-> population[best_idx], rng |-> d.rng] :
            d \in {randranges(rng, Len(population), 3, <<>>)}})

\* crossover: one point, drawn from 1..len-1.
crossover(parent_a, parent_b, rng) ==
    IF Len(parent_a) <= 1 THEN [value |-> <<parent_a, parent_b>>, rng |-> rng]
    ELSE The({[value |-> <<SubSeq(parent_a, 1, 1 + d.value)
                              \o SubSeq(parent_b, 2 + d.value, Len(parent_b)),
                           SubSeq(parent_b, 1, 1 + d.value)
                              \o SubSeq(parent_a, 2 + d.value, Len(parent_a))>>,
               rng |-> d.rng] :
                d \in {randrange(rng, Len(parent_a) - 1)}})

\* mutate, from gene idx on.
RECURSIVE mutate_from(_, _, _, _, _)
mutate_from(chromosome, robot_count, mutation_rate, rng, idx) ==
    IF idx > Len(chromosome) THEN [value |-> chromosome, rng |-> rng]
    ELSE The({IF hit.value
              THEN The({mutate_from([chromosome EXCEPT ![idx] = d.value], robot_count,
                                    mutation_rate, d.rng, idx + 1) :
                          d \in {randrange(hit.rng, robot_count)}})
              ELSE mutate_from(chromosome, robot_count, mutation_rate, hit.rng, idx + 1) :
                hit \in {random_below(rng, mutation_rate)}})

mutate(chromosome, robot_count, mutation_rate, rng) ==
    mutate_from(chromosome, robot_count, mutation_rate, rng, 1)

\* The two parents of one round of the while loop and their children before
\* mutation: crossed with probability crossover_rate, else the parents.
children_of(sorted_population, fitnesses, p, rng) ==
    The({The({The({IF cross.value
                   THEN crossover(parent_a.value, parent_b.value, cross.rng)
                   ELSE [value |-> <<parent_a.value, parent_b.value>>, rng |-> cross.rng] :
                      cross \in {random_below(parent_b.rng, p.crossover_rate)}}) :
                parent_b \in {tournament_select(sorted_population, fitnesses, parent_a.rng)}}) :
            parent_a \in {tournament_select(sorted_population, fitnesses, rng)}})

\* The while loop of optimize_assignments that fills next_population.
RECURSIVE breed(_, _, _, _, _, _)
breed(next_population, sorted_population, fitnesses, robot_count, p, rng) ==
    IF Len(next_population) >= p.population_size
    THEN [value |-> next_population, rng |-> rng]
    ELSE The({The({IF Len(next_population) + 1 < p.population_size
                   THEN The({breed(next_population \o <<child_a.value, child_b.value>>,
                                   sorted_population, fitnesses, robot_count, p,
                                   child_b.rng) :
                               child_b \in {mutate(children.value[2], robot_count,
                                                   p.mutation_rate, child_a.rng)}})
                   ELSE breed(Append(next_population, child_a.value), sorted_population,
                              fitnesses, robot_count, p, child_a.rng) :
                      child_a \in {mutate(children.value[1], robot_count, p.mutation_rate,
                                          children.rng)}}) :
                children \in {children_of(sorted_population, fitnesses, p, rng)}})

NoBest == [chromosome |-> <<>>, score |-> -1, job_scores |-> <<>>]

\* Mutant: the best chromosome is the one evaluated last.
best_latest(population, fits, idx, best) ==
    IF population = <<>> THEN best
    ELSE [chromosome |-> population[Len(population)],
          score |-> fits[Len(population)].score,
          job_scores |-> fits[Len(population)].job_scores]

\* The best chromosome so far after the evaluations fits[idx..] of a
\* generation; a score of -1 stands for infinity.
RECURSIVE best_from(_, _, _, _)
best_from(population, fits, idx, best) ==
    IF idx > Len(population) THEN best
    ELSE The({best_from(population, fits, idx + 1, better) :
                better \in {IF best.score = -1 \/ fits[idx].score < best.score
                            THEN [chromosome |-> population[idx], score |-> fits[idx].score,
                                  job_scores |-> fits[idx].job_scores]
                            ELSE best}})

\* One generation: the population evaluated and sorted by (fitness, index),
\* the elite kept, the rest bred; with the best chromosome so far.
generation(population, rs, js, p, best, rng) ==
    The({The({The({[next |-> breed(SubSeq(sorted_population, 1,
                                          Min(p.elite_size, Len(order))),
                                   sorted_population,
                                   [i \in 1..Len(order) |-> fits[order[i]].score],
                                   Len(rs), p, rng),
                    best |-> best_from(population, fits, 1, best)] :
                      sorted_population \in {[i \in 1..Len(order) |-> population[order[i]]]}}) :
                order \in {Sorted(DOMAIN population,
                                  LAMBDA a, b : \/ fits[a].score < fits[b].score
                                                \/ fits[a].score = fits[b].score /\ a < b)}}) :
            fits \in {[i \in DOMAIN population |->
                         evaluate_chromosome(population[i], rs, js, p.service_time_s)]}})

\* The generations loop of optimize_assignments with `left` generations to go.
RECURSIVE evolve(_, _, _, _, _, _, _)
evolve(population, rs, js, p, left, best, rng) ==
    IF left = 0 THEN [best |-> best, rng |-> rng]
    ELSE The({evolve(g.next.value, rs, js, p, left - 1, g.best, g.next.rng) :
                g \in {generation(population, rs, js, p, best, rng)}})

\* The result of optimize_assignments from the best chromosome of the run:
\* the assignments sorted by (job_id, robot_id), and the meta.
ga_result(ordered_robots, ordered_jobs, seed, p, run) ==
    The({[assignments |->
             Sorted({[job_id |-> ordered_jobs[i].id,
                      robot_id |-> ordered_robots[(best.chromosome[i] % Len(ordered_robots))
                                                  + 1].id,
                      score |-> Get(best.job_scores, ordered_jobs[i].id, 0)] :
                        i \in 1..Len(ordered_jobs)},
                    LAMBDA a, b : \/ a.job_id < b.job_id
                                  \/ a.job_id = b.job_id /\ a.robot_id < b.robot_id),
          meta |-> [best_score |-> best.score, generations |-> p.generations,
                    population_size |-> p.population_size, seed |-> seed],
          rng |-> run.rng] :
            best \in {IF run.best.score = -1
                      THEN The({[chromosome |-> [i \in 1..Len(ordered_jobs) |-> 0],
                                 score |-> fit.score, job_scores |-> fit.job_scores] :
                                  fit \in {evaluate_chromosome(
                                              [i \in 1..Len(ordered_jobs) |-> 0],
                                              ordered_robots, ordered_jobs,
                                              p.service_time_s)}})
                      ELSE run.best}})

\* optimize_assignments: the assignments, the meta, and the generator it drew
\* from as it is left.
optimize_assignments(rs, js, seed, p, global_rng) ==
    The({IF ordered_jobs = <<>> \/ ordered_robots = <<>>
         THEN [assignments |-> <<>>, meta |-> [best_score |-> 0, generations |-> 0],
               rng |-> rng0]
         ELSE The({The({ga_result(ordered_robots, ordered_jobs, seed, p, run) :
                          run \in {evolve(init.value, ordered_robots, ordered_jobs, p,
                                          p.generations, NoBest, init.rng)}}) :
                     init \in {initialize_population(p.population_size, Len(ordered_jobs),
                                                     Len(ordered_robots), rng0)}}) :
            ordered_robots \in {The({[i \in 1..Len(order) |-> rs[order[i]]] :
                                       order \in {Sorted(DOMAIN rs,
                                                    LAMBDA a, b : rs[a].id < rs[b].id)}})},
            ordered_jobs \in {sorted_jobs(js)},
            rng0 \in {new_rng(seed, global_rng)}})

\* ---------------------------------------------------------- generate_scenario
SCALE_MAP ==
    [mini |-> [robots |-> 5, jobs |-> 5],
     small |-> [robots |-> 5, jobs |-> 25],
     demo |-> [robots |-> 10, jobs |-> 50],
     large |-> [robots |-> 20, jobs |-> 100]]

\* An optional int: None is the empty tuple, n is <<n>>.
None == <<>>

\* Mutant: generate_scenario draws from the module-level generator.
scenario_rng_shared(seed, global_rng) == [state |-> global_rng, shared |-> TRUE]

\* rng = random.Random(seed) of generate_scenario.
scenario_rng(seed, global_rng) == [state |-> seed % RngModulus, shared |-> FALSE]

\* round(rng.uniform(a, b), 3) on the integer grid, and rng.randint(a, b).
uniform(rng, a, b) ==
    [value |-> a + ((rng_step(rng).state \div 2) % (b - a + 1)), rng |-> rng_step(rng)]

randint(rng, a, b) ==
    [value |-> a + (rng_step(rng).state % (b - a + 1)), rng |-> rng_step(rng)]

\* The generator after k more draws; its stream repeats after RngModulus.
RECURSIVE rng_skip(_, _)
rng_skip(rng, k) ==
    IF k % RngModulus = 0 THEN rng ELSE rng_step(rng_skip(rng, (k % RngModulus) - 1))

\* The robots loop of generate_scenario: robot idx takes draws 3 * (idx - 1) + 1
\* to 3 * idx of the generator.
scenario_robots(robots_count, world_size, rng) ==
    [value |-> [idx \in 1..robots_count |->
                    LET x == uniform(rng_skip(rng, 3 * (idx - 1)), 0, world_size)
                        y == uniform(x.rng, 0, world_size)
                        speed == uniform(y.rng, robot_speed_min, robot_speed_max)
                    IN Robot(x.value, y.value, speed.value, FullBattery)],
     rng |-> rng_skip(rng, 3 * robots_count)]

\* The jobs loop of generate_scenario: job jdx takes six draws.
scenario_jobs(jobs_count, world_size, rng) ==
    [value |-> [jdx \in 1..jobs_count |->
                    LET pickup_x == uniform(rng_skip(rng, 6 * (jdx - 1)), 0, world_size)
                        pickup_y == uniform(pickup_x.rng, 0, world_size)
                        dropoff_x == uniform(pickup_y.rng, 0, world_size)
                        dropoff_y == uniform(dropoff_x.rng, 0, world_size)
                        slack == randint(dropoff_y.rng, 0, 20)
                        priority == randint(slack.rng, 1, 5)
                    IN Job(pickup_x.value, pickup_y.value, dropoff_x.value,
                           dropoff_y.value, 120 + jdx * 12 + slack.value,
                           priority.value)],
     rng |-> rng_skip(rng, 6 * jobs_count)]

\* The payload that is hashed, field by field as numbers: seed, scale, every
\* field of every robot, seven fields of every job.
StateCode(state) ==
    CASE state = "idle" -> 1
      [] state = "moving_to_pickup" -> 2
      [] state = "moving_to_dropoff" -> 3
      [] state = "charging" -> 4

ScaleCode(scale) ==
    CASE scale = "mini" -> 1 [] scale = "small" -> 2 [] scale = "demo" -> 3
      [] scale = "large" -> 4

payload_robots(rs) ==
    [idx \in 1..Len(rs) |->
        LET r == rs[idx]
        IN <<idx, r.x, r.y, r.speed, r.battery, StateCode(r.state), r.current_job_id,
             r.target_x, r.target_y, r.phase_remaining_s, r.distance_traveled>>]

payload_jobs(js) ==
    [jdx \in 1..Len(js) |->
        LET j == js[jdx]
        IN <<jdx, j.pickup_x, j.pickup_y, j.dropoff_x, j.dropoff_y, j.deadline_ts,
             j.priority>>]

\* hashlib.sha256(encoded).hexdigest(): a digest of the encoded payload, here
\* a polynomial one, taken entry by entry and field by field.
RECURSIVE sha256_entry(_, _)
sha256_entry(entry, k) ==
    IF k = 0 THEN 0
    ELSE (sha256_entry(entry, k - 1) * 31 + entry[k] + 2) % HashModulus

RECURSIVE sha256(_, _, _)
sha256(encoded, lo, hi) ==
    IF lo = hi THEN sha256_entry(encoded[lo], Len(encoded[lo]))
    ELSE LET mid == (lo + hi) \div 2
         IN (sha256(encoded, lo, mid) * 127 + sha256(encoded, mid + 1, hi)) % HashModulus

ScenarioError == [error |-> TRUE, robots |-> <<>>, jobs |-> <<>>, scenario_hash |-> 0]

\* generate_scenario; error stands for the ValueError of its argument checks.
generate_scenario(seed, scale, world_size, robots_override, jobs_override, global_rng) ==
    LET rng0 == scenario_rng(seed, global_rng)
    IN IF \/ scale \notin DOMAIN SCALE_MAP
          \/ (robots_override = None) # (jobs_override = None)
          \/ robots_override # None /\ robots_override[1] <= 0
          \/ jobs_override # None /\ jobs_override[1] <= 0
       THEN [result |-> ScenarioError, rng |-> rng0]
       ELSE LET robots_count == IF robots_override # None THEN robots_override[1]
                                ELSE SCALE_MAP[scale].robots
                jobs_count == IF jobs_override # None THEN jobs_override[1]
                              ELSE SCALE_MAP[scale].jobs
                rs == scenario_robots(robots_count, world_size, rng0)
                js == scenario_jobs(jobs_count, world_size, rs.rng)
                encoded == <<<<seed, ScaleCode(scale)>>>> \o payload_robots(rs.value)
                               \o payload_jobs(js.value)
            IN [result |-> [error |-> FALSE, robots |-> rs.value, jobs |-> js.value,
                            scenario_hash |-> sha256(encoded, 1, Len(encoded))],
                rng |-> js.rng]

EngineUnused ==
    /\ cfg = Config(1, 0, 0)
    /\ tick = 0
    /\ robots = <<>>
    /\ jobs = <<>>
    /\ last_emitted_state = <<>>
    /\ last_position_emit_sim_s = <<>>
    /\ dropoff_service_remaining = <<>>
    /\ resume_state = <<>>
    /\ robot_events = <<>>

ApiUnused ==
    /\ last_call = NoCall
    /\ applied = <<>>
    /\ initial_emits = 0

SimUnused ==
    /\ sim_pc = "unused"
    /\ assignment_queue = <<>>
    /\ previous_job_states = <<>>
    /\ exchange = NoExchange
    /\ sim_steps = 0
    /\ rejected = {}

NoDelivered == [run_started |-> 0, job_created |-> 0, robot_updated |-> 0]

DispUnused ==
    /\ states = <<>>
    /\ tasks = <<>>
    /\ delivered = NoDelivered
    /\ redeliveries = 0
    /\ job_assigned_log = {}
    /\ unconfirmed = <<>>
    /\ baseline_runs = <<>>
    /\ replan_calls = <<>>
    /\ retry_owed = NoTime

\* The message bodies a consumer can be handed: an event object, a JSON text
\* that is not an object, a text that is not JSON, bytes that are not UTF-8.
Bodies == {"event", "array", "invalid_json", "invalid_bytes"}

\* json.loads(message.body.decode("utf-8")): the kind of value returned, or
\* the exception raised.
decode(body) ==
    IF body = "invalid_bytes" THEN "UnicodeDecodeError"
    ELSE IF body = "invalid_json" THEN "JSONDecodeError"
    ELSE IF body = "array" THEN "list"
    ELSE "dict"

\* A message in a handler's hands: its body, how the handler left it
\* ("running" until then) and the message.ack() calls made for it.
Delivery(body) == [body |-> body, outcome |-> "running", acks |-> 0]
NoDelivery == [body |-> "none", outcome |-> "none", acks |-> 0]

\* The handler is over with the given outcome; acked tells whether the path
\* it took went through message.ack().
leave(d, outcome, acked) ==
    [d EXCEPT !.outcome = outcome, !.acks = IF acked THEN @ + 1 ELSE @]

NoMq ==
    [dispatcher |-> [t \in 1..MaxTasks |-> NoDelivery],
     sim_runner |-> [run_started |-> NoDelivery, job_assigned |-> NoDelivery]]

\* The sim-runner's _on_run_started and _on_job_assigned: decoding and the
\* handler's work are inside one try whose finally acks.
sim_on_message(body) ==
    LET payload == decode(body)
    IN IF payload = "UnicodeDecodeError" THEN leave(Delivery(body), "invalid_bytes", TRUE)
       ELSE IF payload = "JSONDecodeError" THEN leave(Delivery(body), "invalid_json", TRUE)
       ELSE IF payload # "dict" THEN leave(Delivery(body), "handler_exception", TRUE)
       ELSE leave(Delivery(body), "success", TRUE)

\* The dispatcher's _on_message for a message no handler works on: the
\* decoding is outside the try whose finally acks, and only
\* json.JSONDecodeError is caught there.
on_message_dropped(routing_key, body) ==
    LET payload == decode(body)
    IN IF payload = "UnicodeDecodeError" THEN leave(Delivery(body), "invalid_bytes", FALSE)
       ELSE IF payload = "JSONDecodeError" THEN leave(Delivery(body), "invalid_json", TRUE)
       ELSE IF routing_key \notin {"run_started", "job_created", "robot_updated"}
            THEN leave(Delivery(body), "unknown_key", TRUE)
       ELSE IF payload # "dict" THEN leave(Delivery(body), "handler_exception", TRUE)
       ELSE leave(Delivery(body), "success", TRUE)

SysUnused == SimUnused /\ DispUnused /\ mq = NoMq

InitBaseline ==
    /\ base_in \in BaselineInputs
    /\ base_out = "none"
    /\ FnUnused
    /\ EngineUnused
    /\ ApiUnused
    /\ SysUnused

CallBaseline ==
    /\ base_out = "none"
    /\ base_out' = <<compute_baseline_assignments(base_in.robots, base_in.jobs,
                                                  base_in.already_assigned,
                                                  base_in.blocked_robots,
                                                  base_in.battery_threshold)>>
    /\ UNCHANGED <<cfg, engine_vars, api_vars, base_in, fn_vars, sys_vars>>

NextBaseline == CallBaseline

SpecBaseline == InitBaseline /\ [][NextBaseline]_vars

\* ------------------------------------------ the engine driven through its API
InitEngine ==
    /\ \E sc \in EngineScenarios :
        /\ cfg = sc[1]
        /\ tick = sc[2].tick
        /\ robots = sc[2].robots
        /\ jobs = sc[2].jobs
        /\ last_emitted_state = sc[2].last_emitted_state
        /\ last_position_emit_sim_s = sc[2].last_position_emit_sim_s
        /\ dropoff_service_remaining = sc[2].dropoff_service_remaining
        /\ resume_state = sc[2].resume_state
        /\ robot_events = sc[2].robot_events
    /\ last_call = NoCall
    /\ applied = [j \in JobIds |-> 0]
    /\ initial_emits = 0
    /\ BaseUnused
    /\ FnUnused
    /\ SysUnused

CallEmitInitial ==
    /\ initial_emits = 0
    /\ SetEng(emit_initial_robot_updates(Eng))
    /\ initial_emits' = initial_emits + 1
    /\ last_call' = [NoCall EXCEPT !.op = "emit_initial_robot_updates"]
    /\ UNCHANGED <<cfg, applied, base_vars, fn_vars, sys_vars>>

\* apply_assignment(Assignment(job_id, robot_id)), unknown ids included.
CallApply(job_id, robot_id) ==
    /\ SetEng(apply_assignment(Eng, job_id, robot_id))
    /\ last_call' = [op |-> "apply_assignment",
                     ret |-> apply_assignment_ok(Eng, job_id, robot_id)]
    /\ applied' = IF apply_assignment_ok(Eng, job_id, robot_id)
                  THEN [applied EXCEPT ![job_id] = @ + 1]
                  ELSE applied
    /\ UNCHANGED <<cfg, initial_emits, base_vars, fn_vars, sys_vars>>

CallStep ==
    /\ tick < MaxTicks
    /\ SetEng(step(Eng))
    /\ last_call' = [NoCall EXCEPT !.op = "step"]
    /\ UNCHANGED <<cfg, applied, initial_emits, base_vars, fn_vars, sys_vars>>

NextEngine ==
    \/ CallEmitInitial
    \/ \E job_id \in 1..(NumJobs + 1), robot_id \in 1..(NumRobots + 1) :
        CallApply(job_id, robot_id)
    \/ CallStep

SpecEngine == InitEngine /\ [][NextEngine]_vars

\* ------------------------------- two engines driven by the same calls
\* The second engine is fn_out[1]; it starts from the same scenario and gets
\* the same calls.  What the two runs do not share is their sink: the second
\* engine's sink hands its updates on at times of its own.
Twin == fn_out[1]

InitTwin ==
    /\ \E sc \in EngineScenarios :
        /\ cfg = sc[1]
        /\ tick = sc[2].tick
        /\ robots = sc[2].robots
        /\ jobs = sc[2].jobs
        /\ last_emitted_state = sc[2].last_emitted_state
        /\ last_position_emit_sim_s = sc[2].last_position_emit_sim_s
        /\ dropoff_service_remaining = sc[2].dropoff_service_remaining
        /\ resume_state = sc[2].resume_state
        /\ robot_events = sc[2].robot_events
        /\ fn_out = <<sc[2]>>
    /\ fn_in = "none"
    /\ last_call = NoCall
    /\ applied = [j \in JobIds |-> 0]
    /\ initial_emits = 0
    /\ BaseUnused
    /\ SysUnused

TwinEmitInitial ==
    /\ initial_emits = 0
    /\ SetEng(emit_initial_robot_updates(Eng))
    /\ fn_out' = <<emit_initial_robot_updates(Twin)>>
    /\ initial_emits' = initial_emits + 1
    /\ last_call' = [NoCall EXCEPT !.op = "emit_initial_robot_updates"]
    /\ UNCHANGED <<cfg, applied, base_vars, fn_in, sys_vars>>

TwinApply(job_id, robot_id) ==
    /\ initial_emits = 1
    /\ last_call.op # "finalize"
    /\ SetEng(apply_assignment(Eng, job_id, robot_id))
    /\ fn_out' = <<apply_assignment(Twin, job_id, robot_id)>>
    /\ last_call' = [op |-> "apply_assignment",
                     ret |-> apply_assignment_ok(Eng, job_id, robot_id)]
    /\ UNCHANGED <<cfg, applied, initial_emits, base_vars, fn_in, sys_vars>>

\* while not engine.should_stop(): ... engine.step()
TwinStep ==
    /\ initial_emits = 1
    /\ last_call.op # "finalize"
    /\ ~should_stop(Eng)
    /\ SetEng(step(Eng))
    /\ fn_out' = <<step(Twin)>>
    /\ last_call' = [NoCall EXCEPT !.op = "step"]
    /\ UNCHANGED <<cfg, applied, initial_emits, base_vars, fn_in, sys_vars>>

\* engine.finalize() once the loop has ended.
TwinFinalize ==
    /\ initial_emits = 1
    /\ last_call.op # "finalize"
    /\ should_stop(Eng)
    /\ SetEng(finalize(Eng))
    /\ fn_out' = <<finalize(Twin)>>
    /\ last_call' = [NoCall EXCEPT !.op = "finalize"]
    /\ UNCHANGED <<cfg, applied, initial_emits, base_vars, fn_in, sys_vars>>

\* The second engine's sink hands on what it holds.
TwinFlush ==
    /\ Twin.robot_events # <<>>
    /\ fn_out' = <<[Twin EXCEPT !.robot_events = <<>>]>>
    /\ UNCHANGED <<cfg, engine_vars, api_vars, base_vars, fn_in, sys_vars>>

NextTwin ==
    \/ TwinEmitInitial
    \/ \E job_id \in JobIds, robot_id \in RobotIds : TwinApply(job_id, robot_id)
    \/ TwinStep
    \/ TwinFinalize
    \/ TwinFlush

SpecTwin == InitTwin /\ [][NextTwin]_vars

\* ------------------------------------------------- the sim-runner's run loop
\* Jobs that start and end where the robots stand.
SpotJobs ==
    [j \in JobIds |->
        Job(IF j % 2 = 1 THEN 0 ELSE MaxCoord, 0, IF j % 2 = 1 THEN 0 ELSE MaxCoord, 0, 1, 3)]

SimScenarios ==
    { <<Config(c[1], c[2], m),
        NewEngine(LineRobots(c[1], [r \in RobotIds |-> FullBattery]), js)>> :
        c \in EngineConfigs, m \in 0..MaxSimSeconds,
        js \in {LineJobs(1, 0), SpotJobs, <<>>} }

InitSim ==
    /\ \E sc \in SimScenarios :
        /\ cfg = sc[1]
        /\ tick = sc[2].tick
        /\ robots = sc[2].robots
        /\ jobs = sc[2].jobs
        /\ last_emitted_state = sc[2].last_emitted_state
        /\ last_position_emit_sim_s = sc[2].last_position_emit_sim_s
        /\ dropoff_service_remaining = sc[2].dropoff_service_remaining
        /\ resume_state = sc[2].resume_state
        /\ robot_events = sc[2].robot_events
    /\ sim_pc = "waiting"
    /\ assignment_queue = <<>>
    /\ previous_job_states = <<>>
    /\ exchange = NoExchange
    /\ sim_steps = 0
    /\ rejected = {}
    /\ ApiUnused
    /\ BaseUnused
    /\ FnUnused
    /\ DispUnused
    /\ mq = NoMq

\* _on_run_started and _simulate_run up to the loop: job.created for every
\* job, then the initial robot.updated of every robot.
SimStart ==
    /\ sim_pc = "waiting"
    /\ \E flushed \in {flush_robot_updates(
                          emit_initial_robot_updates(Eng),
                          publish_events(exchange, "job_created", job_created_events(jobs)))} :
          /\ SetEng(flushed.engine)
          /\ exchange' = flushed.exchange
    /\ previous_job_states' = [j \in DOMAIN jobs |-> jobs[j].state]
    /\ sim_pc' = "loop"
    /\ mq' = [mq EXCEPT !.sim_runner.run_started = sim_on_message("event")]
    /\ UNCHANGED <<cfg, assignment_queue, sim_steps, rejected, sim_frame>>

\* _on_job_assigned: the message joins the run's queue.  Without a queue for
\* the run (before the run starts, after it ends) the message is dropped and
\* nothing changes.
OnJobAssigned(job_id, robot_id) ==
    /\ sim_pc = "loop"
    /\ Len(assignment_queue) < MaxQueue
    /\ assignment_queue' = Append(assignment_queue,
                                  [job_id |-> job_id, robot_id |-> robot_id])
    /\ mq' = [mq EXCEPT !.sim_runner.job_assigned = sim_on_message("event")]
    /\ UNCHANGED <<cfg, engine_vars, sim_pc, previous_job_states, exchange, sim_steps,
                   rejected, sim_frame>>

\* One iteration of the loop: drain, step, flush, job.completed events.
SimTick ==
    /\ sim_pc = "loop"
    /\ ~should_stop(Eng)
    /\ sim_steps < MaxSteps
    /\ \E drained \in {drain(Eng, assignment_queue, 1, {})} :
       \E flushed \in {flush_robot_updates(step(drained.engine), exchange)} :
          /\ SetEng(flushed.engine)
          /\ exchange' = publish_events(flushed.exchange, "job_terminal",
                            job_terminal_events(flushed.engine.jobs,
                                newly_completed(flushed.engine, previous_job_states),
                                "job.completed", current_sim_time_s(flushed.engine)))
          /\ previous_job_states' =
                [j \in DOMAIN flushed.engine.jobs |-> flushed.engine.jobs[j].state]
          /\ rejected' = drained.refused
    /\ assignment_queue' = <<>>
    /\ sim_steps' = sim_steps + 1
    /\ UNCHANGED <<cfg, sim_pc, sim_frame, mq>>

\* After the loop: finalize, job.failed for every failed job, run.completed;
\* _cleanup_run then forgets the run's queue.
SimFinish ==
    /\ sim_pc = "loop"
    /\ should_stop(Eng)
    /\ \E e \in {finalize(Eng)} :
          /\ SetEng(e)
          /\ exchange' = publish_events(
                publish_events(exchange, "job_terminal",
                    job_terminal_events(e.jobs,
                                        {j \in DOMAIN e.jobs : e.jobs[j].state = "failed"},
                                        "job.failed", current_sim_time_s(e))),
                "run_completed", <<[sim_time_s |-> current_sim_time_s(e),
                                    metrics |-> compute_metrics(e.jobs)]>>)
    /\ sim_pc' = "done"
    /\ assignment_queue' = <<>>
    /\ UNCHANGED <<cfg, previous_job_states, sim_steps, rejected, sim_frame, mq>>

\* The job.assigned messages that arrive: every job for every robot, and one
\* naming a job and a robot the run does not have.
SimMessages == (JobIds \X RobotIds) \cup {<<NumJobs + 1, NumRobots + 1>>}

NextSim ==
    \/ SimStart
    \/ \E msg \in SimMessages : OnJobAssigned(msg[1], msg[2])
    \/ SimTick
    \/ SimFinish

SpecSim == InitSim /\ [][NextSim]_vars

\* A step of the run's task, told by its guard and by what it does to sim_pc
\* and sim_steps: SimStart, SimTick or SimFinish.
RunTaskStep ==
    \/ sim_pc = "waiting" /\ sim_pc' = "loop" /\ sim_steps' = sim_steps
    \/ /\ sim_pc = "loop" /\ ~should_stop(Eng) /\ sim_steps < MaxSteps
       /\ sim_pc' = sim_pc /\ sim_steps' = sim_steps + 1
    \/ sim_pc = "loop" /\ should_stop(Eng) /\ sim_pc' = "done" /\ sim_steps' = sim_steps

\* The event loop runs every task that is ready, and the publishes and the
\* sleep the run's task awaits return: the task is not starved.
FairSpecSim == SpecSim /\ WF_<<sim_pc, sim_steps>>(RunTaskStep)

\* ------------------------------- dispatcher, broker and sim-runner together
\* One run: the API has published run.started; the sim-runner and the
\* dispatcher each have their own queue for it.
InitRun(modes, configs, engines) ==
    /\ \E mode \in modes :
        exchange = [NoExchange EXCEPT !.run_started = <<[mode |-> mode]>>]
    /\ cfg \in configs
    /\ \E e \in engines :
        /\ tick = e.tick
        /\ robots = e.robots
        /\ jobs = e.jobs
        /\ last_emitted_state = e.last_emitted_state
        /\ last_position_emit_sim_s = e.last_position_emit_sim_s
        /\ dropoff_service_remaining = e.dropoff_service_remaining
        /\ resume_state = e.resume_state
        /\ robot_events = e.robot_events
    /\ sim_pc = "waiting"
    /\ assignment_queue = <<>>
    /\ previous_job_states = <<>>
    /\ sim_steps = 0
    /\ rejected = {}
    /\ states = <<>>
    /\ tasks = [t \in 1..MaxTasks |-> FreeTask]
    /\ delivered = NoDelivered
    /\ redeliveries = 0
    /\ job_assigned_log = {}
    /\ unconfirmed = [r \in RobotIds |-> NoJob]
    /\ baseline_runs = <<>>
    /\ replan_calls = <<>>
    /\ retry_owed = NoTime
    /\ mq = NoMq
    /\ ApiUnused
    /\ BaseUnused
    /\ FnUnused

\* Two robots at full battery, two jobs along the x axis.
LineEngine(p1, d1) ==
    NewEngine(LineRobots(1, [r \in RobotIds |-> FullBattery]), LineJobs(p1, d1))

\* The worker runs with its default settings.
InitSys == InitRun({"baseline", "ga"}, {Config(1, 0, MaxSimSeconds - 1)}, {LineEngine(0, 0)})

FreeSlots == {t \in DOMAIN tasks : tasks[t].pc = "free"}
NewTaskId == CHOOSE t \in FreeSlots : \A u \in FreeSlots : t <= u

\* A handler's configuration at the start of a stretch of its code.
Conf(st, task, self) ==
    [st |-> st, task |-> task, self |-> self, plan |-> <<>>, failed |-> FALSE,
     out |-> <<>>, ran |-> <<>>, calls |-> <<>>, exchange_none |-> FALSE]

\* Some other task is inside publish_event with a job.assigned for robot_id.
Publishing(self, robot_id) ==
    \E t \in DOMAIN tasks \ {self} :
        tasks[t].pc = "publish" /\ tasks[t].emit_robot = robot_id

\* mq after a stretch of handler self that leaves the tasks tasks1: a free
\* slot before the stretch means the message has just been delivered, a free
\* slot after it that _on_message has reached its finally; published tells
\* whether the stretch handed a job.assigned to the sim-runner's handler.
mq_after(self, tasks1, published) ==
    LET d0 == IF tasks[self].pc = "free" THEN Delivery("event") ELSE mq.dispatcher[self]
        d1 == IF tasks1[self].pc = "free" THEN leave(d0, "success", TRUE) ELSE d0
    IN [mq EXCEPT !.dispatcher[self] = d1,
                  !.sim_runner.job_assigned =
                        IF published THEN sim_on_message("event") ELSE @]

\* What a stretch of handler self leaves behind.  states0 and unconfirmed0
\* are self.states and unconfirmed as the stretch found them.  A RunState that
\* neither self.states[run_id] nor a task refers to is garbage.
Settle(self, c, states0, unconfirmed0) ==
    LET tasks1 == [tasks EXCEPT ![self] = IF c.task.pc = "end" THEN FreeTask ELSE c.task]
        states1 == [states0 EXCEPT ![c.task.gen] = c.st]
    IN /\ tasks' = tasks1
       /\ mq' = mq_after(self, tasks1, c.out # <<>>)
       /\ replan_calls' = c.calls
       /\ states' = [g \in 1..Len(states1) |->
                        IF g < Len(states1) /\ \A t \in DOMAIN tasks1 : tasks1[t].gen # g
                        THEN DeadRunState ELSE states1[g]]
       /\ IF c.out = <<>>
          THEN /\ unconfirmed' = unconfirmed0
               /\ UNCHANGED <<assignment_queue, job_assigned_log>>
          ELSE LET m == c.out[1] IN
               /\ assignment_queue' =
                    IF sim_pc = "loop"
                    THEN Append(assignment_queue,
                                [job_id |-> m.job_id, robot_id |-> m.robot_id])
                    ELSE assignment_queue
               /\ job_assigned_log' = job_assigned_log \cup
                    {[job_id |-> m.job_id, robot_id |-> m.robot_id,
                      sim_time_s |-> m.sim_time_s, gen |-> c.task.gen,
                      clash |-> \/ unconfirmed0[m.robot_id] # NoJob
                                \/ Publishing(self, m.robot_id)]}
               /\ unconfirmed' = [unconfirmed0 EXCEPT ![m.robot_id] = m.job_id]
       /\ baseline_runs' =
            IF c.ran = <<>> THEN baseline_runs
            ELSE Put(baseline_runs, <<c.task.gen, c.ran[1]>>,
                     Get(baseline_runs, <<c.task.gen, c.ran[1]>>, 0) + 1)

DispIdle ==
    /\ mq' = mq_after(NewTaskId, tasks, FALSE)
    /\ replan_calls' = <<>>
    /\ UNCHANGED <<states, tasks, assignment_queue, job_assigned_log, unconfirmed,
                   baseline_runs>>

\* _handle_run_started.
HandleRunStarted(ev) ==
    LET self == NewTaskId
        states0 == Append(states, RunState(ev.mode))
        task == [FreeTask EXCEPT !.gen = Len(states0),
                                 !.pc = IF ev.mode = "ga" THEN "replan" ELSE "end",
                                 !.after = "end"]
    IN Settle(self,
              run_task([Conf(RunState(ev.mode), task, self)
                        EXCEPT !.calls = IF ev.mode = "ga" THEN <<"run_start">> ELSE <<>>]),
              states0, unconfirmed)

\* _handle_job_created.
HandleJobCreated(ev) ==
    IF states = <<>>
    THEN DispIdle
    ELSE /\ states' = [states EXCEPT ![Len(states)] = ingest_job_created(@, ev)]
         /\ mq' = mq_after(NewTaskId, tasks, FALSE)
         /\ replan_calls' = <<>>
         /\ UNCHANGED <<tasks, assignment_queue, job_assigned_log, unconfirmed,
                        baseline_runs>>

\* unconfirmed once the update ev has been processed: a non-idle state or the
\* assigned job as current_job_id confirms the assignment.
confirm(ev) ==
    IF ev.state # "idle"
       \/ (unconfirmed[ev.robot_id] # NoJob /\ ev.current_job_id = unconfirmed[ev.robot_id])
    THEN [unconfirmed EXCEPT ![ev.robot_id] = NoJob]
    ELSE unconfirmed

\* _handle_robot_updated, up to its first suspension.
HandleRobotUpdated(ev) ==
    IF states = <<>>
    THEN DispIdle
    ELSE LET self == NewTaskId
             st == states[Len(states)]
             ingested == ingest_robot_updated(st, ev)
             task == IF st.mode = "baseline"
                     THEN [FreeTask EXCEPT !.gen = Len(states),
                                           !.sim_time_s = ev.sim_time_s,
                                           !.pc = "baseline_once"]
                     ELSE [FreeTask EXCEPT !.gen = Len(states),
                                           !.robot_id = ev.robot_id,
                                           !.sim_time_s = ev.sim_time_s,
                                           !.new_state = ev.state,
                                           !.prev_state = ingested.prev_state,
                                           !.robot_ok = ingested.robot_ok,
                                           !.ctx = "handler",
                                           !.emit_robot = ev.robot_id,
                                           !.pc = "emit_planned"]
         IN IF ingested.ignored
            THEN /\ unconfirmed' = confirm(ev)
                 /\ mq' = mq_after(NewTaskId, tasks, FALSE)
                 /\ replan_calls' = <<>>
                 /\ UNCHANGED <<states, tasks, assignment_queue, job_assigned_log,
                                baseline_runs>>
            ELSE Settle(self, run_task(Conf(ingested.st, task, self)), states, confirm(ev))

\* _on_message, by routing key.
Handle(queue, ev) ==
    IF queue = "run_started" THEN HandleRunStarted(ev)
    ELSE IF queue = "job_created" THEN HandleJobCreated(ev)
    ELSE HandleRobotUpdated(ev)

\* What the claim about retries calls for: the dispatcher knows a pending job
\* and an idle robot it would send to the optimizer, and no call is in flight.
RetryDue(st) ==
    /\ st.mode = "ga"
    /\ has_pending_jobs(st)
    /\ \E r \in eligible_robots(st) : st.robots[r].state = "idle"
    /\ ~st.optimizer_in_flight

\* retry_owed after a stretch of a handler.  A _replan_ga call in the
\* stretch settles the debt; an optimizer error with no call after it opens
\* it; a robot.updated handled to its end with RetryDue and no call adds one.
owed_after(kind) ==
    IF replan_calls' # <<>> THEN NoTime
    ELSE IF kind = "error" THEN 0
    ELSE IF /\ kind = "update"
            /\ retry_owed # NoTime
            /\ tasks' = tasks
            /\ RetryDue(states'[Len(states')])
    THEN Min(retry_owed + 1, MaxOwed)
    ELSE retry_owed

DispFrame == UNCHANGED <<cfg, engine_vars, sim_pc, previous_job_states, exchange,
                         sim_steps, rejected, api_vars, base_vars, fn_vars>>

\* The broker hands the dispatcher the next message of one of its queues.
Deliver(queue) ==
    /\ delivered[queue] < Len(exchange[queue])
    /\ FreeSlots # {}
    /\ Handle(queue, exchange[queue][delivered[queue] + 1])
    /\ retry_owed' = owed_after(
            IF /\ queue = "robot_updated"
               /\ states # <<>>
               /\ ~ingest_robot_updated(states[Len(states)],
                                        exchange[queue][delivered[queue] + 1]).ignored
            THEN "update" ELSE "other")
    /\ delivered' = [delivered EXCEPT ![queue] = @ + 1]
    /\ UNCHANGED redeliveries
    /\ DispFrame

\* The broker hands over again a message it has delivered before (its ack
\* was lost): a duplicate, and out of order.
Redeliver(queue, i) ==
    /\ redeliveries < MaxRedeliver
    /\ i \in 1..delivered[queue]
    /\ FreeSlots # {}
    /\ Handle(queue, exchange[queue][i])
    /\ retry_owed' = owed_after("other")
    /\ redeliveries' = redeliveries + 1
    /\ UNCHANGED delivered
    /\ DispFrame

\* publish_event returns to the task inside _emit_assignment.
PublishDone(self) ==
    /\ tasks[self].pc = "publish"
    /\ Settle(self,
              run_task(Conf(states[tasks[self].gen],
                            [tasks[self] EXCEPT !.pc = "emit_published"], self)),
              states, unconfirmed)
    /\ retry_owed' = owed_after("other")
    /\ UNCHANGED <<delivered, redeliveries>>
    /\ DispFrame

\* A task waiting for baseline_lock or assign_lock has been handed the lock.
LockGranted(self) ==
    /\ \/ /\ tasks[self].pc = "baseline_lock"
          /\ states[tasks[self].gen].baseline_lock.holder = self
       \/ /\ tasks[self].pc = "assign_lock"
          /\ states[tasks[self].gen].assign_lock.holder = self
    /\ Settle(self,
              run_task(Conf(states[tasks[self].gen],
                            [tasks[self] EXCEPT
                                !.pc = IF @ = "baseline_lock" THEN "baseline_locked"
                                       ELSE "emit_locked"], self)),
              states, unconfirmed)
    /\ retry_owed' = owed_after("other")
    /\ UNCHANGED <<delivered, redeliveries>>
    /\ DispFrame

\* request_ga_plan returns a plan: some robot of the request for every job of
\* the request.
OptimizerReply(self, plan) ==
    /\ tasks[self].pc = "optimizer"
    /\ Settle(self,
              run_task([Conf(states[tasks[self].gen],
                             [tasks[self] EXCEPT !.pc = "optimizer_reply"], self)
                        EXCEPT !.plan = plan]),
              states, unconfirmed)
    /\ retry_owed' = owed_after("other")
    /\ UNCHANGED <<delivered, redeliveries>>
    /\ DispFrame

\* request_ga_plan raises (HTTP error, timeout).
OptimizerError(self) ==
    /\ tasks[self].pc = "optimizer"
    /\ Settle(self,
              run_task([Conf(states[tasks[self].gen],
                             [tasks[self] EXCEPT !.pc = "optimizer_reply"], self)
                        EXCEPT !.failed = TRUE]),
              states, unconfirmed)
    /\ retry_owed' = owed_after("error")
    /\ UNCHANGED <<delivered, redeliveries>>
    /\ DispFrame

DispatcherQueues == {"run_started", "job_created", "robot_updated"}

NextSys ==
    \/ SimStart
    \/ SimTick
    \/ SimFinish
    \/ \E queue \in DispatcherQueues : Deliver(queue)
    \/ \E queue \in DispatcherQueues : \E i \in 1..delivered[queue] : Redeliver(queue, i)
    \/ \E self \in DOMAIN tasks : PublishDone(self)
    \/ \E self \in DOMAIN tasks : LockGranted(self)
    \/ \E self \in DOMAIN tasks :
        \E plan \in [tasks[self].req_jobs -> tasks[self].req_robots] :
            OptimizerReply(self, plan)
    \/ \E self \in DOMAIN tasks : OptimizerError(self)

SpecSys == InitSys /\ [][NextSys]_vars

\* A GA run with the periodic replan switched off (0) or on, every
\* MaxInterval sim-seconds or more often.
InitPeriodic ==
    InitRun({"ga"},
            {[Config(1, 0, MaxSimSeconds - 1) EXCEPT !.ga_replan_interval_s = interval] :
                interval \in 0..MaxInterval},
            {LineEngine(0, 0)})

SpecPeriodic == InitPeriodic /\ [][NextSys]_vars

\* ------------------------------- a run whose messages arrive in order, once
\* One robot at the origin; job 1 starts there and ends one cell away, job 2
\* comes back.
SoloEngine == NewEngine([r \in {1} |-> Robot(0, 0, 1, FullBattery)], LineJobs(0, 1))

\* The run of InitSys or the run of one robot, one sim-second longer, with
\* the dispatcher's battery threshold at its default or at HighThreshold.
InitOrdered ==
    InitRun({"baseline", "ga"},
            {[Config(1, 0, MaxSimSeconds) EXCEPT !.battery_threshold = threshold] :
                threshold \in {BatteryThreshold, HighThreshold}},
            {LineEngine(0, 0), SoloEngine})

\* The broker hands over run.started first, then every job.created, then the
\* robot.updated messages, each queue in its order.
DeliverInOrder(queue) ==
    /\ queue # "run_started" => delivered.run_started = Len(exchange.run_started)
    /\ queue = "robot_updated" => delivered.job_created = Len(exchange.job_created)
    /\ Deliver(queue)

\* No message is delivered twice and the optimizer answers every request.
NextOrdered ==
    \/ SimStart
    \/ SimTick
    \/ SimFinish
    \/ \E queue \in DispatcherQueues : DeliverInOrder(queue)
    \/ \E self \in DOMAIN tasks : PublishDone(self)
    \/ \E self \in DOMAIN tasks : LockGranted(self)
    \/ \E self \in DOMAIN tasks :
        \E plan \in [tasks[self].req_jobs -> tasks[self].req_robots] :
            OptimizerReply(self, plan)

SpecOrdered == InitOrdered /\ [][NextOrdered]_vars

\* ------------------------------------------------- _replan_ga called alone
\* A shadow robot and a job as the dispatcher holds them.
ReplanRobot(kind) ==
    [x |-> 0, y |-> 0, speed |-> 1,
     battery |-> IF kind = "low" THEN BatteryThreshold - 10
                 ELSE IF kind = "charging" THEN 0 ELSE FullBattery,
     state |-> IF kind = "charging" THEN "charging" ELSE "idle",
     current_job_id |-> NoJob, sim_time_s |-> 0]

ReplanJob(j, deadline_ts, state) ==
    [pickup_x |-> j, pickup_y |-> 0, dropoff_x |-> 0, dropoff_y |-> 0,
     deadline_ts |-> deadline_ts, priority |-> 3, state |-> state]

\* The RunStates _replan_ga is called on: every robot idle, low or charging,
\* every job pending or completed, the deadlines rising or falling with the
\* job ids, job 1 emitted already or not, the in-flight flag set by another
\* call or not.
ReplanInputs ==
    { [RunState("ga") EXCEPT
          !.robots = [r \in RobotIds |-> ReplanRobot(kinds[r])],
          !.jobs = [j \in JobIds |-> ReplanJob(j, deadlines[j], job_states[j])],
          !.assigned_jobs = emitted,
          !.optimizer_in_flight = flag] :
        kinds \in [RobotIds -> {"ok", "low", "charging"}],
        job_states \in [JobIds -> {"pending", "completed"}],
        deadlines \in {[j \in JobIds |-> j], [j \in JobIds |-> NumJobs + 1 - j]},
        emitted \in {{}, {1}},
        flag \in BOOLEAN }

InitReplan ==
    /\ EngineUnused
    /\ \E st \in ReplanInputs : states = <<st>>
    /\ tasks = [t \in 1..MaxTasks |-> FreeTask]
    /\ delivered = NoDelivered
    /\ redeliveries = 0
    /\ job_assigned_log = {}
    /\ unconfirmed = [r \in RobotIds |-> NoJob]
    /\ baseline_runs = <<>>
    /\ replan_calls = <<>>
    /\ retry_owed = NoTime
    /\ mq = NoMq
    /\ ApiUnused
    /\ BaseUnused
    /\ FnUnused
    /\ SimUnused

\* A handler calls _replan_ga(state, sim_time_s=0, reason) and returns after it.
CallReplan ==
    /\ last_call = NoCall
    /\ Settle(1,
              run_task([Conf(states[1],
                             [FreeTask EXCEPT !.gen = 1, !.pc = "replan", !.after = "end"],
                             1)
                        EXCEPT !.calls = <<"run_start">>]),
              states, unconfirmed)
    /\ retry_owed' = owed_after("other")
    /\ last_call' = [NoCall EXCEPT !.op = "_replan_ga"]
    /\ UNCHANGED <<cfg, engine_vars, sim_pc, previous_job_states, exchange, sim_steps,
                   rejected, applied, initial_emits, base_vars, fn_vars,
                   delivered, redeliveries>>

NextReplan ==
    \/ CallReplan
    \/ \E self \in DOMAIN tasks : PublishDone(self)
    \/ \E self \in DOMAIN tasks :
        \E plan \in [tasks[self].req_jobs -> tasks[self].req_robots] :
            OptimizerReply(self, plan)
    \/ \E self \in DOMAIN tasks : OptimizerError(self)

SpecReplan == InitReplan /\ [][NextReplan]_vars

\* ------------------------------------------------ _emit_assignment on its own
\* A caller reaches _emit_assignment(state, job_id, robot_id, 0, reason):
\* _emit_planned_for_idle_robot called from the handler of a robot.updated
\* (ctx handler, the robot having been prev_state before) or from _replan_ga
\* (ctx replan); exchange_none: self.exchange is None.
CallEmit(job_id, robot_id, ctx, prev_state, exchange_none) ==
    /\ last_call = NoCall
    /\ Settle(1,
              run_task([Conf(states[1],
                             [FreeTask EXCEPT !.gen = 1, !.pc = "emit_assignment",
                                              !.job_id = job_id, !.emit_robot = robot_id,
                                              !.robot_id = robot_id, !.ctx = ctx,
                                              !.new_state = "idle",
                                              !.prev_state = prev_state,
                                              !.robot_ok = TRUE, !.after = "end"],
                             1)
                        EXCEPT !.exchange_none = exchange_none]),
              states, unconfirmed)
    /\ retry_owed' = owed_after("other")
    /\ last_call' = [op |-> "_emit_assignment", ret |-> ~exchange_none]
    /\ UNCHANGED <<cfg, engine_vars, sim_pc, previous_job_states, exchange, sim_steps,
                   rejected, applied, initial_emits, base_vars, fn_vars,
                   delivered, redeliveries>>

\* publish_event raises in the task inside _emit_assignment.
PublishError(self) ==
    /\ tasks[self].pc = "publish"
    /\ Settle(self,
              run_task(Conf(states[tasks[self].gen],
                            [tasks[self] EXCEPT !.pc = "publish_raised"], self)),
              states, unconfirmed)
    /\ retry_owed' = owed_after("other")
    /\ last_call' = [op |-> "publish_event", ret |-> FALSE]
    /\ UNCHANGED <<cfg, engine_vars, sim_pc, previous_job_states, exchange, sim_steps,
                   rejected, applied, initial_emits, base_vars, fn_vars,
                   delivered, redeliveries>>

NextEmit ==
    \/ \E job_id \in 1..(NumJobs + 1), robot_id \in RobotIds,
          ctx \in {"handler", "replan"}, prev_state \in {"idle", "moving_to_dropoff"},
          exchange_none \in BOOLEAN :
            CallEmit(job_id, robot_id, ctx, prev_state, exchange_none)
    \/ \E self \in DOMAIN tasks : PublishDone(self)
    \/ \E self \in DOMAIN tasks : PublishError(self)
    \/ \E self \in DOMAIN tasks :
        \E plan \in [tasks[self].req_jobs -> tasks[self].req_robots] :
            OptimizerReply(self, plan)
    \/ \E self \in DOMAIN tasks : OptimizerError(self)

SpecEmit == InitReplan /\ [][NextEmit]_vars

\* --------------------------------------------- generate_scenario called twice
Overrides == {None, <<0>>, <<1>>, <<3>>}

ScenarioInputs ==
    [seed : 0..MaxSeed,
     scale : DOMAIN SCALE_MAP \cup {"huge"},
     world_size : {1, MaxWorldSize},
     robots_override : Overrides,
     jobs_override : Overrides,
     global_rng : {0, 7}]

InitScenario ==
    /\ fn_in \in ScenarioInputs
    /\ fn_out = "none"
    /\ EngineUnused
    /\ ApiUnused
    /\ BaseUnused
    /\ SysUnused

\* The calls made so far, and the module-level generator as they left it.
ScenarioCalls == IF fn_out = "none" THEN <<>> ELSE fn_out
ScenarioGlobalRng ==
    IF fn_out = "none" THEN fn_in.global_rng ELSE fn_out[Len(fn_out)].global_rng

CallGenerate ==
    /\ Len(ScenarioCalls) < 2
    /\ \E g \in {generate_scenario(fn_in.seed, fn_in.scale, fn_in.world_size,
                                   fn_in.robots_override, fn_in.jobs_override,
                                   ScenarioGlobalRng)} :
          fn_out' = Append(ScenarioCalls,
                           [result |-> g.result,
                            global_rng |-> IF g.rng.shared THEN g.rng.state
                                           ELSE ScenarioGlobalRng])
    /\ UNCHANGED <<cfg, engine_vars, api_vars, base_vars, fn_in, sys_vars>>

NextScenario == CallGenerate

SpecScenario == InitScenario /\ [][NextScenario]_vars

\* ------------------------------------------ optimize_assignments called twice
GaParams ==
    [service_time_s : {1},
     population_size : {2, 3},
     generations : 0..MaxGenerations,
     elite_size : {0, 1},
     crossover_rate : {0, 90},
     mutation_rate : {0, 50}]

\* No robot or two robots at the ends of the line and up to two jobs; global_rng is the
\* state of the module-level generator before the first call.
OptimizerInputs ==
    [robots : {<<>>,
               <<GaRobot(2, MaxCoord, 1, FullBattery), GaRobot(1, 0, 1, FullBattery)>>},
     jobs : {<<>>,
             <<GaJob(1, 0, MaxCoord, 1, 3)>>,
             <<GaJob(2, MaxCoord, 0, 2, 3), GaJob(1, 0, MaxCoord, 2, 3)>>},
     seed : 0..MaxSeed,
     params : GaParams,
     global_rng : {0, 7}]

InitOptimizer ==
    /\ fn_in \in OptimizerInputs
    /\ fn_out = "none"
    /\ EngineUnused
    /\ ApiUnused
    /\ BaseUnused
    /\ SysUnused

\* The calls made so far, and the module-level generator as they left it.
OptimizerCalls == IF fn_out = "none" THEN <<>> ELSE fn_out
GlobalRng ==
    IF fn_out = "none" THEN fn_in.global_rng ELSE fn_out[Len(fn_out)].global_rng

CallOptimize ==
    /\ Len(OptimizerCalls) < 2
    /\ \E r \in {optimize_assignments(fn_in.robots, fn_in.jobs, fn_in.seed, fn_in.params,
                                      GlobalRng)} :
          fn_out' = Append(OptimizerCalls,
                           [assignments |-> r.assignments, meta |-> r.meta,
                            global_rng |-> IF r.rng.shared THEN r.rng.state ELSE GlobalRng])
    /\ UNCHANGED <<cfg, engine_vars, api_vars, base_vars, fn_in, sys_vars>>

NextOptimizer == CallOptimize

SpecOptimizer == InitOptimizer /\ [][NextOptimizer]_vars

\* ------------------------------------------- evaluate_chromosome called alone
\* One robot and one job, evaluated with a tighter and with a later deadline.
FitnessInputs ==
    [robot : {GaRobot(1, x, speed, battery) :
                x \in 0..MaxCoord, speed \in {1, 2}, battery \in {FullBattery, 10, 0}},
     pickup_x : 0..MaxCoord,
     dropoff_x : 0..MaxCoord,
     priority : {1, 5},
     tight : 0..MaxDeadline,
     later : 0..MaxDeadline,
     service_time_s : {0, 1},
     gene : {0, 1}]

InitFitness ==
    /\ fn_in \in {in \in FitnessInputs : in.tight < in.later}
    /\ fn_out = "none"
    /\ EngineUnused
    /\ ApiUnused
    /\ BaseUnused
    /\ SysUnused

FitnessJob(deadline_ts) ==
    GaJob(1, fn_in.pickup_x, fn_in.dropoff_x, deadline_ts, fn_in.priority)

CallEvaluate ==
    /\ fn_out = "none"
    /\ fn_out' = <<evaluate_chromosome(<<fn_in.gene>>, <<fn_in.robot>>,
                                       <<FitnessJob(fn_in.tight)>>, fn_in.service_time_s),
                   evaluate_chromosome(<<fn_in.gene>>, <<fn_in.robot>>,
                                       <<FitnessJob(fn_in.later)>>, fn_in.service_time_s)>>
    /\ UNCHANGED <<cfg, engine_vars, api_vars, base_vars, fn_in, sys_vars>>

NextFitness == CallEvaluate

SpecFitness == InitFitness /\ [][NextFitness]_vars

\* ------------------------------------------ the consumers and their messages
\* The run of SpecSys at its start, with the broker also handing the two
\* consumers messages they cannot work on.
RoutingKeys == DispatcherQueues \cup {"other"}

\* _on_message with a body that does not decode to an object, or with a
\* routing key that has no handler: no handler gets to the run's state.
OnMessageDropped(routing_key, body) ==
    /\ FreeSlots # {}
    /\ ~(decode(body) = "dict" /\ routing_key \in DispatcherQueues)
    /\ mq' = [mq EXCEPT !.dispatcher[NewTaskId] = on_message_dropped(routing_key, body)]
    /\ UNCHANGED <<cfg, engine_vars, api_vars, base_vars, fn_vars, sim_vars, disp_vars>>

\* _on_run_started or _on_job_assigned with a body that does not decode to an
\* object: the exception is logged inside the try.
SimMessageDropped(routing_key, body) ==
    /\ decode(body) # "dict"
    /\ mq' = [mq EXCEPT !.sim_runner[routing_key] = sim_on_message(body)]
    /\ UNCHANGED <<cfg, engine_vars, api_vars, base_vars, fn_vars, sim_vars, disp_vars>>

NextAck ==
    \/ SimStart
    \/ \E queue \in DispatcherQueues : Deliver(queue)
    \/ \E queue \in DispatcherQueues : \E i \in 1..delivered[queue] :
        redeliveries < MaxAckRedeliver /\ Redeliver(queue, i)
    \/ \E self \in DOMAIN tasks : PublishDone(self)
    \/ \E self \in DOMAIN tasks : LockGranted(self)
    \/ \E self \in DOMAIN tasks :
        \E plan \in [tasks[self].req_jobs -> tasks[self].req_robots] :
            OptimizerReply(self, plan)
    \/ \E self \in DOMAIN tasks : OptimizerError(self)
    \/ \E routing_key \in RoutingKeys, body \in Bodies : OnMessageDropped(routing_key, body)
    \/ \E routing_key \in {"run_started", "job_assigned"}, body \in Bodies :
        SimMessageDropped(routing_key, body)

SpecAck == InitSys /\ [][NextAck]_vars

\* ------------------------------------------------------------- claims
LastEvent == robot_events[Len(robot_events)]

\* C4: apply_assignment returns true exactly when the robot and the job exist,
\* the robot is idle and the job is pending or unassigned; then the job is
\* assigned to the robot, the robot is moving_to_pickup with the job as its
\* current job and the job's pickup as its target, and exactly one forced
\* robot.updated with the new state is handed to the sink.
C4_ApplyAssignmentContract ==
    [][\A job_id \in 1..(NumJobs + 1), robot_id \in 1..(NumRobots + 1) :
        CallApply(job_id, robot_id) =>
            /\ last_call'.ret =
                (/\ robot_id \in RobotIds
                 /\ job_id \in JobIds
                 /\ robots[robot_id].state = "idle"
                 /\ jobs[job_id].state \in {"pending", "unassigned"})
            /\ last_call'.ret =>
                /\ jobs'[job_id].state = "assigned"
                /\ jobs'[job_id].assigned_robot_id = robot_id
                /\ robots'[robot_id].state = "moving_to_pickup"
                /\ robots'[robot_id].current_job_id = job_id
                /\ robots'[robot_id].target_x = jobs[job_id].pickup_x
                /\ robots'[robot_id].target_y = jobs[job_id].pickup_y
                /\ Len(robot_events') = Len(robot_events) + 1
                /\ robot_events'[Len(robot_events')].robot_id = robot_id
                /\ robot_events'[Len(robot_events')].state = "moving_to_pickup"
                /\ robot_events'[Len(robot_events')].current_job_id = job_id
                /\ last_emitted_state'[robot_id] = "moving_to_pickup"
    ]_vars

C4_Witness ==
    /\ last_call = [op |-> "apply_assignment", ret |-> TRUE]
    /\ LastEvent.state = "moving_to_pickup"
    /\ robots[LastEvent.robot_id].current_job_id = LastEvent.current_job_id

\* C5: each job is applied successfully at most once, and applying a job again
\* once it has been applied (robot busy, or job completed and robot idle again)
\* returns false, changes no robot or job field and emits nothing.
C5_ApplyIdempotent ==
    [][/\ \A j \in JobIds : applied'[j] <= 1
       /\ \A job_id \in JobIds, robot_id \in RobotIds :
            (CallApply(job_id, robot_id) /\ applied[job_id] >= 1) =>
                /\ last_call'.ret = FALSE
                /\ UNCHANGED engine_vars
    ]_vars

C5_Witness ==
    /\ last_call = [op |-> "apply_assignment", ret |-> FALSE]
    /\ \E j \in JobIds :
        /\ applied[j] = 1
        /\ jobs[j].state = "completed"
        /\ robots[jobs[j].assigned_robot_id].state = "idle"

\* C6: the robot.updated events handed to the sink carry robot_id, state and a
\* whole-number sim_time_s, and their sim_time_s never decreases in emission
\* order, whatever the order of emit_initial_robot_updates, apply_assignment
\* and step calls.
C6_SimTimeMonotonic ==
    \A i \in 1..Len(robot_events) :
        /\ {"robot_id", "state", "sim_time_s"} \subseteq DOMAIN robot_events[i]
        /\ robot_events[i].robot_id \in RobotIds
        /\ robot_events[i].state \in RobotStates
        /\ robot_events[i].sim_time_s \in Nat
        /\ i > 1 => robot_events[i - 1].sim_time_s <= robot_events[i].sim_time_s

C6_Witness ==
    /\ initial_emits = 1
    /\ \E j \in JobIds : applied[j] = 1
    /\ Len(robot_events) >= 3
    /\ robot_events[1].sim_time_s < LastEvent.sim_time_s
    /\ last_call.op = "emit_initial_robot_updates"

\* What the baseline call was given and what it returned.
BaseCalled == base_out # "none"
BaseResult == base_out[1]
BaseAssignedRobots == {BaseResult[i].robot_id : i \in 1..Len(BaseResult)}
BaseCandidateJobs ==
    {j \in DOMAIN base_in.jobs :
        /\ base_in.jobs[j].state \in {"pending", "unassigned"}
        /\ j \notin base_in.already_assigned}
BaseIdleUnblocked ==
    {r \in DOMAIN base_in.robots :
        base_in.robots[r].state = "idle" /\ r \notin base_in.blocked_robots}
BaseCharged ==
    {r \in BaseIdleUnblocked : base_in.robots[r].battery >= base_in.battery_threshold}

\* C8: blocked and non-idle robots are never assigned; when some idle,
\* non-blocked robot meets the battery threshold only such robots are assigned;
\* when none does and there is a candidate job, every idle, non-blocked robot
\* is a candidate whatever its battery.
C8_BatteryFallback ==
    BaseCalled =>
        /\ BaseAssignedRobots \subseteq BaseIdleUnblocked
        /\ BaseCharged # {} =>
            /\ BaseAssignedRobots \subseteq BaseCharged
            /\ Len(BaseResult) =
                Min(Cardinality(BaseCandidateJobs), Cardinality(BaseCharged))
        /\ BaseCharged = {} =>
            Len(BaseResult) =
                Min(Cardinality(BaseCandidateJobs), Cardinality(BaseIdleUnblocked))

C8_Witness ==
    /\ BaseCalled
    /\ BaseCharged = {}
    /\ Len(BaseResult) = 2
    /\ \E r \in BaseAssignedRobots : base_in.robots[r].battery < base_in.battery_threshold

\* The greedy EDF-nearest matching as a set of <<job, robot>> pairs.
RefCandidateRobots == IF BaseCharged = {} /\ BaseCandidateJobs # {}
                      THEN BaseIdleUnblocked ELSE BaseCharged

RefBefore(a, b) ==
    LET ja == base_in.jobs[a]
        jb == base_in.jobs[b]
    IN \/ ja.deadline_ts < jb.deadline_ts
       \/ ja.deadline_ts = jb.deadline_ts /\ ja.priority > jb.priority
       \/ ja.deadline_ts = jb.deadline_ts /\ ja.priority = jb.priority /\ JobIdLess(a, b)

RefDistance2(r, j) ==
    (base_in.robots[r].x - base_in.jobs[j].pickup_x) ^ 2
    + (base_in.robots[r].y - base_in.jobs[j].pickup_y) ^ 2

RECURSIVE RefMatching(_, _)
RefMatching(jobs_left, robots_left) ==
    IF jobs_left = {} \/ robots_left = {} THEN {}
    ELSE LET j == CHOOSE a \in jobs_left : \A b \in jobs_left \ {a} : RefBefore(a, b)
             r == CHOOSE a \in robots_left : \A b \in robots_left \ {a} :
                    \/ RefDistance2(a, j) < RefDistance2(b, j)
                    \/ RefDistance2(a, j) = RefDistance2(b, j) /\ a < b
         IN {<<j, r>>} \cup RefMatching(jobs_left \ {j}, robots_left \ {r})

\* C9: the result is the greedy EDF-nearest matching (jobs by deadline
\* ascending, priority descending, id ascending; each takes the nearest unused
\* candidate robot, the smaller id on equal distance), listed by
\* (job_id, robot_id) with reason baseline_edf_nearest.
C9_GreedyEdfNearest ==
    BaseCalled =>
        /\ {<<BaseResult[i].job_id, BaseResult[i].robot_id>> : i \in 1..Len(BaseResult)}
            = RefMatching(BaseCandidateJobs, RefCandidateRobots)
        /\ Len(BaseResult) = Cardinality(RefMatching(BaseCandidateJobs, RefCandidateRobots))
        /\ \A i \in 1..Len(BaseResult) : BaseResult[i].reason = "baseline_edf_nearest"
        /\ \A i, k \in 1..Len(BaseResult) :
            i < k => \/ JobIdLess(BaseResult[i].job_id, BaseResult[k].job_id)
                     \/ /\ BaseResult[i].job_id = BaseResult[k].job_id
                        /\ BaseResult[i].robot_id < BaseResult[k].robot_id

\* Two jobs assigned, the first in the list having had two candidate robots at
\* the same distance.
C9_Witness ==
    /\ BaseCalled
    /\ Len(BaseResult) = 2
    /\ \E i \in 1..2 : \E r \in RefCandidateRobots \ {BaseResult[i].robot_id} :
        RefDistance2(r, BaseResult[i].job_id)
            = RefDistance2(BaseResult[i].robot_id, BaseResult[i].job_id)

\* C10: the simulation loop terminates.  should_stop holds exactly when the
\* sim time has reached max_sim_seconds or every job is completed or failed
\* (always, with no jobs); an iteration runs only while it does not hold and
\* moves tick on by exactly one; the loop therefore makes at most
\* max_sim_seconds * tick_hz iterations whatever assignments arrive, and the
\* run always reaches its end.
C10_LoopTerminates ==
    /\ [](should_stop(Eng) <=>
            \/ tick \div cfg.tick_hz >= cfg.max_sim_seconds
            \/ \A j \in DOMAIN jobs : jobs[j].state \in {"completed", "failed"})
    /\ [](jobs = <<>> => should_stop(Eng))
    /\ [](sim_steps = tick /\ sim_steps <= cfg.max_sim_seconds * cfg.tick_hz)
    /\ [][SimTick => tick' = tick + 1]_vars
    /\ [][sim_pc = "loop" /\ sim_pc' = "done" =>
            \/ tick \div cfg.tick_hz >= cfg.max_sim_seconds
            \/ \A j \in DOMAIN jobs : jobs[j].state \in {"completed", "failed"}]_vars
    /\ <>(sim_pc = "done")

\* The loop ran for all of max_sim_seconds * tick_hz iterations, at two ticks
\* per second, with an assignment applied and a job left unfinished.
C10_Witness ==
    /\ sim_pc = "done"
    /\ cfg.tick_hz = 2
    /\ cfg.max_sim_seconds = MaxSimSeconds
    /\ sim_steps = cfg.max_sim_seconds * cfg.tick_hz
    /\ \E j \in DOMAIN jobs : jobs[j].state = "failed" /\ jobs[j].assigned_robot_id # NoRobot

\* C1: for every run_id and job_id the dispatcher emits at most one
\* job.assigned event, whatever the deliveries of run.started, job.created and
\* robot.updated, duplicated ones included.
C1_OneAssignmentPerJob ==
    \A a, b \in job_assigned_log : a.job_id = b.job_id => a = b

\* C2: the dispatcher never emits a job.assigned for a robot while an earlier
\* job.assigned for that robot is still being published or is unconfirmed.
\* Stated for the runs whose run.started made one RunState only.
C2_NoDoubleAssignment ==
    Len(states) <= 1 => \A a \in job_assigned_log : ~a.clash

\* C3: with robot.updated events delivered twice or out of order, every
\* job.assigned the engine drains names a robot that is idle in the engine, so
\* apply_assignment accepts it.  Stated for the runs whose run.started made
\* one RunState only.
C3_DrainedAssignmentsApplied ==
    Len(states) <= 1 => rejected = {}

\* C7: in baseline mode _dispatch_baseline is entered at most once for each
\* RunState and integer sim_time_s, whatever robot.updated events carry it.
C7_BaselineOncePerSimTime ==
    \A k \in DOMAIN baseline_runs : baseline_runs[k] <= 1

\* C11: finalize leaves every job completed or failed, so that the metrics of
\* the run count completed_jobs + failed_jobs = total_jobs: a job that was
\* pending, unassigned, assigned or in_progress is failed with completed_sim_ts
\* the current sim time and lateness_s = max(0, now - deadline_ts), and a
\* completed job keeps every field.
C11_FinalizeTerminal ==
    [][SimFinish =>
        LET now == tick \div cfg.tick_hz
            metrics == exchange'.run_completed[Len(exchange'.run_completed)].metrics
        IN /\ \A j \in DOMAIN jobs :
                /\ jobs'[j].state \in {"completed", "failed"}
                /\ jobs[j].state \in {"pending", "unassigned", "assigned", "in_progress"} =>
                      jobs'[j] = [jobs[j] EXCEPT
                                     !.state = "failed",
                                     !.completed_sim_ts = now,
                                     !.lateness_s = IF now > jobs[j].deadline_ts
                                                    THEN now - jobs[j].deadline_ts ELSE 0]
                /\ jobs[j].state = "completed" => jobs'[j] = jobs[j]
           /\ DOMAIN jobs' = DOMAIN jobs
           /\ metrics.total_jobs = Len(jobs)
           /\ metrics.completed_jobs + metrics.failed_jobs = metrics.total_jobs
    ]_vars

\* A finished run with a job completed before the end, and a job a robot was
\* carrying failed late by finalize.
C11_Witness ==
    /\ sim_pc = "done"
    /\ exchange.run_completed # <<>>
    /\ exchange.run_completed[1].metrics.completed_jobs = 1
    /\ exchange.run_completed[1].metrics.failed_jobs = 1
    /\ \E j \in DOMAIN jobs :
        /\ jobs[j].state = "failed"
        /\ jobs[j].assigned_robot_id # NoRobot
        /\ jobs[j].lateness_s > 0
        /\ robots[jobs[j].assigned_robot_id].current_job_id = j

\* service_time_s in ticks.
ServiceTicks == cfg.service_time_s * cfg.tick_hz

\* C12: a robot's state changes only along idle -> moving_to_pickup (a
\* successful apply_assignment of a job to it), moving_to_pickup ->
\* moving_to_dropoff (in a step, at the pickup with the pickup service over,
\* the job going in_progress), moving_to_dropoff -> idle (in a step, at the
\* dropoff with the dropoff service over, the job completed), moving_* ->
\* charging (in a step, battery 0, the state remembered) and charging -> the
\* remembered state; a robot never goes idle while its job is assigned or
\* in_progress.
C12_ListedTransitionsOnly ==
    [][\A r \in DOMAIN robots :
        robots'[r].state # robots[r].state =>
            LET old == robots[r].state
                new == robots'[r].state
                j == IF old = "idle" THEN robots'[r].current_job_id
                     ELSE robots[r].current_job_id
            IN
            \/ /\ old = "idle" /\ new = "moving_to_pickup"
               /\ last_call' = [op |-> "apply_assignment", ret |-> TRUE]
               /\ j \in DOMAIN jobs
               /\ jobs[j].state \in {"pending", "unassigned"}
               /\ jobs'[j].state = "assigned" /\ jobs'[j].assigned_robot_id = r
            \/ /\ old = "moving_to_pickup" /\ new = "moving_to_dropoff"
               /\ last_call'.op = "step"
               /\ robots'[r].x = jobs[j].pickup_x /\ robots'[r].y = jobs[j].pickup_y
               /\ ServiceTicks <= 1 \/ robots[r].phase_remaining_s = 1
               /\ jobs[j].state = "assigned" /\ jobs'[j].state = "in_progress"
            \/ /\ old = "moving_to_dropoff" /\ new = "idle"
               /\ last_call'.op = "step"
               /\ robots'[r].x = jobs[j].dropoff_x /\ robots'[r].y = jobs[j].dropoff_y
               /\ ServiceTicks <= 1 \/ dropoff_service_remaining[r] = 1
               /\ jobs[j].state = "in_progress" /\ jobs'[j].state = "completed"
            \/ /\ Moving(old) /\ new = "charging"
               /\ last_call'.op = "step"
               /\ robots'[r].battery = 0
               /\ resume_state'[r] = old
               /\ jobs'[j].state \in {"assigned", "in_progress"}
            \/ /\ old = "charging" /\ new = resume_state[r]
               /\ Moving(new)
               /\ last_call'.op = "step"
               /\ jobs'[j].state \in {"assigned", "in_progress"}
    ]_vars

\* A robot that has gone through every listed transition: it took a job,
\* picked it up, ran out of battery on the way to the dropoff, charged,
\* resumed and completed the job.
C12_Witness ==
    /\ last_call.op = "step"
    /\ \E r \in DOMAIN robots :
        /\ robots[r].state = "idle"
        /\ robots[r].battery = ChargeResumeThreshold
        /\ robots[r].distance_traveled > 0
        /\ \E j \in DOMAIN jobs :
            jobs[j].state = "completed" /\ jobs[j].assigned_robot_id = r

\* C13: a robot enters charging exactly when its battery is at 0 in a
\* moving_* state: it is then charging with that state remembered, and no
\* robot is left moving on an empty battery after a step.  Every charging
\* robot has a remembered state in {moving_to_pickup, moving_to_dropoff}.  A
\* charging robot leaves charging in the step that brings its battery to
\* charge_resume_threshold, into exactly the remembered state, with the same
\* current job and target.
C13_ChargeAndResume ==
    /\ [](\A r \in DOMAIN robots :
            /\ robots[r].state = "charging" => Moving(resume_state[r])
            /\ (last_call.op = "step" /\ Moving(robots[r].state)) => robots[r].battery > 0)
    /\ [][\A r \in DOMAIN robots :
            /\ (robots[r].state # "charging" /\ robots'[r].state = "charging") =>
                  /\ Moving(robots[r].state)
                  /\ robots'[r].battery = 0
                  /\ resume_state'[r] = robots[r].state
                  /\ robots'[r].current_job_id = robots[r].current_job_id
            /\ (robots[r].state = "charging" /\ last_call'.op = "step") =>
                  /\ robots'[r].battery >= robots[r].battery
                  /\ (robots'[r].state # "charging") <=>
                        (robots'[r].battery >= cfg.charge_resume_threshold)
                  /\ robots'[r].state \in {"charging", resume_state[r]}
                  /\ robots'[r].state # "idle"
                  /\ robots'[r].current_job_id = robots[r].current_job_id
                  /\ robots'[r].target_x = robots[r].target_x
                  /\ robots'[r].target_y = robots[r].target_y
      ]_vars

\* A robot back on its way to the pickup after charging, and another one
\* charging on its way to the dropoff.
C13_Witness ==
    \E r, q \in DOMAIN robots :
        /\ robots[r].state = "moving_to_pickup"
        /\ robots[r].battery = cfg.charge_resume_threshold
        /\ robots[r].current_job_id # NoJob
        /\ robots[q].state = "charging"
        /\ resume_state[q] = "moving_to_dropoff"

\* C14: every robot's battery lies in [0, 100]; across a tick it does not
\* increase for a robot that is in a moving_* state, does not decrease for a
\* charging robot and does not change for an idle robot.
C14_BatteryBounds ==
    /\ [](\A r \in DOMAIN robots : robots[r].battery >= 0 /\ robots[r].battery <= 100)
    /\ [][last_call'.op = "step" =>
            \A r \in DOMAIN robots :
                /\ Moving(robots[r].state) => robots'[r].battery <= robots[r].battery
                /\ robots[r].state = "charging" => robots'[r].battery >= robots[r].battery
                /\ robots[r].state = "idle" => robots'[r].battery = robots[r].battery
      ]_vars

\* A robot that resumed with less battery than its next cell costs, and has
\* moved on to an empty battery.
C14_Witness ==
    \E r \in DOMAIN robots :
        /\ robots[r].state = "charging"
        /\ robots[r].battery = 0
        /\ \E i \in 1..Len(robot_events) :
            /\ robot_events[i].robot_id = r
            /\ Moving(robot_events[i].state)
            /\ robot_events[i].battery = cfg.charge_resume_threshold
            /\ robot_events[i].battery < CellBattery
            /\ robot_events[i].x # robots[r].x

\* The leg a robot is on: its state, or the remembered one while it charges.
Leg(r) == IF robots[r].state = "charging" THEN resume_state[r] ELSE robots[r].state

\* C15: before finalize, a robot is idle if and only if it has no current
\* job; a robot that is not idle (charging included) has one current job, no
\* other robot has the same one, the job is assigned while the robot heads to
\* or serves the pickup and in_progress while it heads to or serves the
\* dropoff, and the job's assigned_robot_id is the robot.
C15_RobotJobPairing ==
    \A r \in DOMAIN robots :
        /\ (robots[r].state = "idle") <=> (robots[r].current_job_id = NoJob)
        /\ robots[r].state # "idle" =>
            LET j == robots[r].current_job_id IN
            /\ j \in DOMAIN jobs
            /\ \A q \in DOMAIN robots \ {r} : robots[q].current_job_id # j
            /\ jobs[j].assigned_robot_id = r
            /\ Leg(r) = "moving_to_pickup" => jobs[j].state = "assigned"
            /\ Leg(r) = "moving_to_dropoff" => jobs[j].state = "in_progress"
            /\ Leg(r) \in {"moving_to_pickup", "moving_to_dropoff"}

\* Two busy robots, each with its own job: one charging on the way to its
\* dropoff, the other on the way to its pickup.
C15_Witness ==
    \E r, q \in DOMAIN robots :
        /\ robots[r].state = "charging"
        /\ resume_state[r] = "moving_to_dropoff"
        /\ jobs[robots[r].current_job_id].state = "in_progress"
        /\ robots[q].state = "moving_to_pickup"
        /\ jobs[robots[q].current_job_id].state = "assigned"

\* The positions in the sink of the robot.updated events of robot r, and of
\* those the current step has added.
EventsOf(r) == {i \in 1..Len(robot_events) : robot_events[i].robot_id = r}
NewEventsOf(r) ==
    {i \in (Len(robot_events) + 1)..Len(robot_events') : robot_events'[i].robot_id = r}

\* C16: in each tick and each successful apply_assignment in which a robot's
\* state changes, exactly one robot.updated is emitted for the robot and it
\* carries the new state; so once emit_initial_robot_updates has run, the
\* most recent robot.updated of every robot carries the robot's current state.
C16_StateChangesPublished ==
    /\ [][\A r \in DOMAIN robots :
            robots'[r].state # robots[r].state =>
                /\ Cardinality(NewEventsOf(r)) = 1
                /\ \A i \in NewEventsOf(r) :
                    /\ robot_events'[i].state = robots'[r].state
                    /\ robot_events'[i].current_job_id = robots'[r].current_job_id
                /\ last_emitted_state'[r] = robots'[r].state
      ]_vars
    /\ [](initial_emits = 1 =>
            \A r \in DOMAIN robots :
                /\ EventsOf(r) # {}
                /\ \A i \in EventsOf(r) :
                    (\A k \in EventsOf(r) : k <= i) =>
                        robot_events[i].state = robots[r].state)

\* A robot that changed state twice in one sim second after the initial
\* emission: both changes are in the sink, the later one last.
C16_Witness ==
    /\ initial_emits = 1
    /\ last_call.op = "step"
    /\ \E r \in DOMAIN robots : \E i, k \in EventsOf(r) :
        /\ 1 < i /\ i < k
        /\ robot_events[i].sim_time_s = robot_events[k].sim_time_s
        /\ robot_events[i].state = "moving_to_pickup"
        /\ robot_events[k].state = "moving_to_dropoff"
        /\ robots[r].state = "moving_to_dropoff"

\* C17: in a tick of sim second s in which robot r does not change state, a
\* robot.updated is emitted for r only if no robot.updated of r with
\* sim_time_s >= s was emitted before, and then one only, stamped s: at most
\* one position update per robot and second, none after a forced emission of
\* the same second.
C17_PositionUpdatesThrottled ==
    [][last_call'.op = "step" =>
        \A r \in DOMAIN robots :
            robots'[r].state = robots[r].state =>
                /\ Cardinality(NewEventsOf(r)) <= 1
                /\ \A i \in NewEventsOf(r) :
                    /\ robot_events'[i].sim_time_s = tick \div cfg.tick_hz
                    /\ \A k \in EventsOf(r) :
                        robot_events[k].sim_time_s < tick \div cfg.tick_hz
    ]_vars

\* At two ticks per second, after the second tick of sim second 1: one robot
\* has one position update for each of the seconds 0 and 1 and nothing else,
\* the other was assigned in this second and has had no position update since.
C17_Witness ==
    /\ cfg.tick_hz = 2
    /\ tick = 4
    /\ last_call.op = "step"
    /\ initial_emits = 0
    /\ \E r, q \in DOMAIN robots :
        /\ robots[r].state = "idle"
        /\ Cardinality(EventsOf(r)) = 2
        /\ \A i \in EventsOf(r) : robot_events[i].state = "idle"
        /\ \E i \in EventsOf(q) :
            /\ robot_events[i].state = "moving_to_pickup"
            /\ robot_events[i].sim_time_s = 1
            /\ \A k \in EventsOf(q) : k <= i
        /\ robots[q].state = "moving_to_pickup"

\* The messages of the queue the coming drain applies: the job is pending
\* before the tick and assigned to the named robot after it.
DrainApplied ==
    {msg \in {assignment_queue[i] : i \in 1..Len(assignment_queue)} :
        /\ msg.job_id \in DOMAIN jobs
        /\ jobs[msg.job_id].state \in {"pending", "unassigned"}
        /\ jobs'[msg.job_id].assigned_robot_id = msg.robot_id}

\* The robot.updated events a tick publishes, in order.
TickEvents ==
    SubSeq(exchange'.robot_updated, Len(exchange.robot_updated) + 1,
           Len(exchange'.robot_updated))

\* C18: every assignment message in the run's queue when a tick's drain
\* begins is applied or refused before the tick's step: the queue is empty
\* after the tick, each message is either refused or applied at the sim time
\* the tick starts with, the robot.updated events of the applications come
\* before every event of the step and show the robots where they stood
\* before it, and the step of the same tick then acts on the robots that
\* were given a job.
C18_DrainBeforeStep ==
    [][SimTick =>
        LET now == tick \div cfg.tick_hz
            n == Cardinality(DrainApplied)
        IN /\ assignment_queue' = <<>>
           /\ tick' = tick + 1
           /\ \A i \in 1..Len(assignment_queue) :
                \/ assignment_queue[i] \in DrainApplied
                \/ assignment_queue[i] \in rejected'
           /\ \A msg \in DrainApplied :
                /\ jobs'[msg.job_id].started_sim_ts = now
                /\ robots[msg.robot_id].state = "idle"
                /\ \/ robots'[msg.robot_id].state # "moving_to_pickup"
                   \/ robots'[msg.robot_id].x # robots[msg.robot_id].x
                   \/ robots'[msg.robot_id].phase_remaining_s # 0
           /\ Len(TickEvents) >= n
           /\ \A k \in 1..n :
                /\ TickEvents[k].state = "moving_to_pickup"
                /\ TickEvents[k].sim_time_s = now
                /\ [job_id |-> TickEvents[k].current_job_id,
                    robot_id |-> TickEvents[k].robot_id] \in DrainApplied
                /\ TickEvents[k].x = robots[TickEvents[k].robot_id].x
    ]_vars

\* At one tick per second both jobs were started in the same tick: the drain
\* of that tick found two messages queued and applied both before the step.
C18_Witness ==
    /\ sim_pc = "loop"
    /\ cfg.tick_hz = 1
    /\ \A j \in DOMAIN jobs : jobs[j].started_sim_ts # NoTime
    /\ \A j, k \in DOMAIN jobs : jobs[j].started_sim_ts = jobs[k].started_sim_ts
    /\ Cardinality(DOMAIN jobs) = NumJobs
    /\ \A r \in DOMAIN robots : robots[r].current_job_id # NoJob

\* The messages the handlers hold or have held last.
Deliveries ==
    {mq.dispatcher[t] : t \in DOMAIN mq.dispatcher}
        \cup {mq.sim_runner.run_started, mq.sim_runner.job_assigned}

\* C19: a message handed to a dispatcher or sim-runner handler is acked
\* exactly once: never more than once, and once when the handler is over,
\* whether the body was invalid JSON or invalid bytes, the routing key
\* unknown, the handler raised or succeeded; and the handling of a body that
\* does not decode leaves the run's state as it was.
C19_AckedExactlyOnce ==
    /\ [](\A d \in Deliveries :
            /\ d.acks <= 1
            /\ d.outcome \notin {"none", "running"} => d.acks = 1)
    /\ [][(\E d \in Deliveries' \ Deliveries : d.outcome \in {"invalid_json", "invalid_bytes"})
            => UNCHANGED <<cfg, engine_vars, sim_vars, disp_vars>>]_vars

\* The robot.updated event a first delivery hands to the dispatcher.
NextRobotUpdate == exchange.robot_updated[delivered.robot_updated + 1]

\* C20: in GA mode, the handling of a robot.updated that reports the robot
\* charging or below the battery threshold, for a robot whose planned queue
\* was not empty before the update, while pending jobs remain and no
\* optimizer call is in flight, calls _replan_ga with reason battery_guard
\* before the handler returns.
C20_BatteryGuardReplan ==
    [][(/\ delivered'.robot_updated = delivered.robot_updated + 1
        /\ states # <<>>
        /\ states[Len(states)].mode = "ga"
        /\ \/ NextRobotUpdate.state = "charging"
           \/ NextRobotUpdate.battery < BatteryThreshold
        /\ Get(states[Len(states)].planned_queues, NextRobotUpdate.robot_id, <<>>) # <<>>
        /\ has_pending_jobs(states[Len(states)])
        /\ ~states[Len(states)].optimizer_in_flight
        /\ ~ingest_robot_updated(states[Len(states)], NextRobotUpdate).ignored)
       => \/ \E i \in 1..Len(replan_calls') : replan_calls'[i] = "battery_guard"
          \/ tasks'[NewTaskId].pc # "free"
    ]_vars

\* The task is inside a _replan_ga call that has set the flag.
InReplan(t) == t.pc = "optimizer" \/ t.ctx = "replan"

ReplanCalled == last_call = NoCall /\ last_call' # NoCall

\* C21: a _replan_ga call that set optimizer_in_flight leaves it false when
\* it is over, whether it returned early (no pending job, no eligible robot),
\* the optimizer call failed, or the plan was installed and emitted, and the
\* handler that called it goes on and returns normally; while the call is
\* under way the flag is set; a call that finds the flag set returns at once
\* and changes nothing, the flag included, without an optimizer request.
C21_InFlightCleared ==
    [][/\ (ReplanCalled /\ states[1].optimizer_in_flight)
            => /\ states' = states
               /\ tasks'[1].pc = "free"
       /\ (/\ \/ (ReplanCalled /\ ~states[1].optimizer_in_flight)
               \/ InReplan(tasks[1])
            /\ ~InReplan(tasks'[1]))
            => /\ ~states'[1].optimizer_in_flight
               /\ tasks'[1].pc = "free"
               /\ mq'.dispatcher[1].outcome = "success"
       /\ InReplan(tasks'[1]) => states'[1].optimizer_in_flight
    ]_vars

\* The optimizer call of a replan with pending jobs and eligible robots has
\* failed: no plan was installed, the call is over and the flag is clear.
C21_Witness ==
    /\ last_call # NoCall
    /\ tasks[1].pc = "free"
    /\ states # <<>>
    /\ has_pending_jobs(states[1])
    /\ eligible_robots(states[1]) # {}
    /\ states[1].planned_queues = <<>>
    /\ ~states[1].optimizer_in_flight

\* The run has ended and the dispatcher has handled every message of it.
RunOver ==
    /\ sim_pc = "done"
    /\ \A queue \in DispatcherQueues : delivered[queue] = Len(exchange[queue])
    /\ \A t \in DOMAIN tasks : tasks[t].pc = "free"

\* C22: in GA mode, after an optimizer call has failed, the robot.updated
\* events that follow trigger a replan again as long as pending jobs remain
\* and an eligible idle robot exists: the run does not end with such events
\* handled after the failure, the jobs still pending, the robot still idle
\* and no replan called since.
C22_ReplanRetriggered ==
    ~(/\ RunOver
      /\ retry_owed >= MaxOwed
      /\ RetryDue(states[Len(states)]))

\* The two results of the fitness calls.
FitTight == fn_out[1]
FitLater == fn_out[2]

\* When the robot of the fitness input is done with the job, in half seconds.
FitnessCompletion ==
    (2 * (Abs(fn_in.robot.x - fn_in.pickup_x) + Abs(fn_in.pickup_x - fn_in.dropoff_x)))
        \div fn_in.robot.speed
    + 4 * fn_in.service_time_s

\* C26: for one robot and one job, the score with the later of two deadlines
\* is never higher than the score with the tighter one, and it is strictly
\* lower whenever the job is late for the tighter deadline.
C26_LatenessMonotonic ==
    fn_out # "none" =>
        /\ FitLater.score <= FitTight.score
        /\ FitnessCompletion > 2 * fn_in.tight => FitLater.score < FitTight.score

\* The job is late for the tighter deadline and on time for the later one.
C26_Witness ==
    /\ fn_out # "none"
    /\ FitnessCompletion > 2 * fn_in.tight
    /\ FitnessCompletion <= 2 * fn_in.later
    /\ FitLater.score < FitTight.score

\* C23: two optimize_assignments calls with the same robots, jobs, seed and
\* GA parameters return the same assignment list and the same meta, and the
\* first call leaves nothing behind for the second: the module-level
\* generator is as it was.
C23_OptimizerDeterministic ==
    /\ Len(OptimizerCalls) = 2 =>
        /\ OptimizerCalls[1].assignments = OptimizerCalls[2].assignments
        /\ OptimizerCalls[1].meta = OptimizerCalls[2].meta
    /\ GlobalRng = fn_in.global_rng

\* Two calls of a GA that ran its generations on two jobs, with mutation on.
C23_Witness ==
    /\ Len(OptimizerCalls) = 2
    /\ Len(fn_in.jobs) = 2
    /\ fn_in.params.generations = MaxGenerations
    /\ fn_in.params.mutation_rate > 0
    /\ Len(OptimizerCalls[2].assignments) = 2
    /\ \E i \in 1..2 : OptimizerCalls[2].assignments[i].robot_id = 2

\* C25: two generate_scenario calls with the same seed, scale, world size and
\* overrides return the same robots, jobs and scenario_hash and leave the
\* module-level generator alone; a scenario has the overridden counts when
\* overrides are given and the preset ones of its scale otherwise, every robot
\* idle with battery 100 and no job, every job pending.
C25_ScenarioDeterministic ==
    /\ Len(ScenarioCalls) = 2 => ScenarioCalls[1].result = ScenarioCalls[2].result
    /\ ScenarioGlobalRng = fn_in.global_rng
    /\ \A i \in 1..Len(ScenarioCalls) :
          LET sc == ScenarioCalls[i].result
          IN ~sc.error =>
              /\ Len(sc.robots) = IF fn_in.robots_override # None
                                  THEN fn_in.robots_override[1]
                                  ELSE SCALE_MAP[fn_in.scale].robots
              /\ Len(sc.jobs) = IF fn_in.jobs_override # None
                                THEN fn_in.jobs_override[1]
                                ELSE SCALE_MAP[fn_in.scale].jobs
              /\ \A r \in 1..Len(sc.robots) :
                    /\ sc.robots[r].state = "idle"
                    /\ sc.robots[r].battery = FullBattery
                    /\ sc.robots[r].current_job_id = NoJob
              /\ \A j \in 1..Len(sc.jobs) :
                    /\ sc.jobs[j].state = "pending"
                    /\ sc.jobs[j].assigned_robot_id = NoRobot

\* Two calls that generated the demo preset, with robots at different places.
C25_Witness ==
    /\ Len(ScenarioCalls) = 2
    /\ fn_in.scale = "demo"
    /\ fn_in.robots_override = None
    /\ ~ScenarioCalls[2].result.error
    /\ Len(ScenarioCalls[2].result.jobs) = 50
    /\ \E a, b \in 1..10 :
          ScenarioCalls[2].result.robots[a].x # ScenarioCalls[2].result.robots[b].x

C27_IdleUpdateIgnored ==
    [][(/\ delivered'.robot_updated = delivered.robot_updated + 1
        /\ states # <<>>
        /\ Get(states[Len(states)].pending_assignments, NextRobotUpdate.robot_id, NoJob)
                # NoJob
        /\ NextRobotUpdate.state = "idle"
        /\ NextRobotUpdate.current_job_id = NoJob)
       => /\ states' = states
          /\ tasks' = tasks
          /\ replan_calls' = <<>>
          /\ baseline_runs' = baseline_runs
          /\ job_assigned_log' = job_assigned_log
          /\ exchange' = exchange
    ]_vars

\* Without redelivery, the last robot.updated handed over reports robot r idle
\* with no job at a later sim time than the shadow record of r has, while an
\* assignment is pending for r: that update was set aside.
C27_Witness ==
    /\ redeliveries = 0
    /\ states # <<>>
    /\ delivered.robot_updated > 0
    /\ LET ev == exchange.robot_updated[delivered.robot_updated]
           st == states[Len(states)]
       IN /\ ev.state = "idle"
          /\ ev.current_job_id = NoJob
          /\ Get(st.pending_assignments, ev.robot_id, NoJob) # NoJob
          /\ ev.robot_id \in DOMAIN st.robots
          /\ st.robots[ev.robot_id].sim_time_s < ev.sim_time_s
          /\ st.robots[ev.robot_id].state = "moving_to_pickup"

\* What _emit_assignment records for a job handed to a robot.
Bookkeeping(st) == <<st.assigned_jobs, st.jobs, st.robots, st.pending_assignments>>

Booked(st, job_id, robot_id) ==
    /\ job_id \in st.assigned_jobs
    /\ st.jobs[job_id].state = "assigned"
    /\ robot_id \in DOMAIN st.robots =>
        /\ st.robots[robot_id].state = "moving_to_pickup"
        /\ st.robots[robot_id].current_job_id = job_id
    /\ Get(st.pending_assignments, robot_id, NoJob) = job_id

\* publish_event has returned normally to the task.
PublishSucceeded ==
    tasks[1].pc = "publish" /\ tasks'[1] # tasks[1] /\ last_call' = last_call

\* C28: when publish_event returns to _emit_assignment, the job is in
\* assigned_jobs with state assigned, the shadow robot is moving_to_pickup
\* with the job as current_job_id and pending_assignments[robot] is the job;
\* every other step (the start of the call, a failed precondition, a missing
\* exchange, publish_event raising, an optimizer reply or error) leaves
\* assigned_jobs, the jobs, the shadow robots and pending_assignments as they
\* were.
C28_BookkeepingIffPublished ==
    [][/\ PublishSucceeded
            => Booked(states'[1], tasks[1].job_id, tasks[1].emit_robot)
       /\ ~PublishSucceeded => Bookkeeping(states'[1]) = Bookkeeping(states[1])
    ]_vars

\* An _emit_assignment call for job 2 whose publish succeeded and whose
\* caller has returned.
C28_Witness ==
    /\ last_call.op = "_emit_assignment"
    /\ tasks[1].pc = "free"
    /\ Booked(states[1], 2, 1)

\* The queues a robot-to-queue map holds are made of jobs the run state knows
\* as pending or unassigned and not emitted, each at most once in a queue.
QueuesClean(st, queues) ==
    \A r \in DOMAIN queues :
        /\ \A k \in 1..Len(queues[r]) : job_assignable(st, queues[r][k])
        /\ \A k, l \in 1..Len(queues[r]) : queues[r][k] = queues[r][l] => k = l

\* C29: for every _replan_ga call waiting for the optimizer and every plan
\* the optimizer can answer, the planned_queues the call would install on the
\* run state as it is now (other handlers may have emitted jobs of the request
\* meanwhile) have the robots of the request as keys and hold only assignable
\* jobs, each once; and when a call leaves the optimizer, planned_queues is
\* either untouched or has the request's robots as keys and clean queues
\* (or the run state is one of a superseded run that nothing refers to any
\* more).
C29_InstalledQueuesClean ==
    /\ [](\A t \in DOMAIN tasks :
            tasks[t].pc = "optimizer" =>
                \A plan \in [tasks[t].req_jobs -> tasks[t].req_robots] :
                    LET st == states[tasks[t].gen]
                        queues == new_queues_from(st, plan_items(plan), 1,
                                                  [r \in tasks[t].req_robots |-> <<>>])
                    IN /\ DOMAIN queues = tasks[t].req_robots
                       /\ QueuesClean(st, queues))
    /\ [][\A t \in DOMAIN tasks :
            (tasks[t].pc = "optimizer" /\ tasks'[t] # tasks[t]) =>
                LET before == states[tasks[t].gen]
                    after == states'[tasks[t].gen]
                IN \/ after = DeadRunState
                   \/ after.planned_queues = before.planned_queues
                   \/ /\ DOMAIN after.planned_queues = tasks[t].req_robots
                      /\ QueuesClean(after, after.planned_queues)]_vars

\* A _replan_ga call has installed its queues and is publishing the first
\* job of one, and a job of its request was emitted by another handler while
\* the optimizer call was outstanding.
C29_Witness ==
    \E t \in DOMAIN tasks :
        /\ tasks[t].pc = "publish"
        /\ tasks[t].ctx = "replan"
        /\ tasks[t].req_jobs \cap states[tasks[t].gen].assigned_jobs # {}
        /\ DOMAIN states[tasks[t].gen].planned_queues = tasks[t].req_robots

NotReplaced(q0, q1) ==
    /\ DOMAIN q1 = DOMAIN q0
    /\ \A r \in DOMAIN q0 :
          \E k \in 0..Len(q0[r]) : q1[r] = SubSeq(q0[r], k + 1, Len(q0[r]))

C34_JobLifecycle ==
    [][\A j \in DOMAIN jobs :
        LET old == jobs[j].state
            new == jobs'[j].state
        IN
        /\ Terminal(old) => jobs'[j] = jobs[j]
        /\ new # old =>
            \/ /\ old \in {"pending", "unassigned"} /\ new = "assigned"
               /\ last_call' = [op |-> "apply_assignment", ret |-> TRUE]
            \/ /\ old = "assigned" /\ new = "in_progress"
               /\ last_call'.op = "step"
            \/ /\ old = "in_progress" /\ new = "completed"
               /\ last_call'.op = "step"
               /\ \E r \in DOMAIN robots :
                    /\ jobs[j].assigned_robot_id = r
                    /\ robots[r].current_job_id = j
                    /\ robots[r].state = "moving_to_dropoff"
                    /\ robots'[r].x = jobs[j].dropoff_x /\ robots'[r].y = jobs[j].dropoff_y
                    /\ ServiceTicks <= 1 \/ dropoff_service_remaining[r] = 1
                    /\ robots'[r].state = "idle" /\ robots'[r].current_job_id = NoJob
               /\ jobs'[j].completed_sim_ts = current_sim_time_s(Eng)
               /\ jobs'[j].lateness_s =
                    Max(0, jobs'[j].completed_sim_ts - jobs[j].deadline_ts)
            \/ /\ ~Terminal(old) /\ new = "failed"
               /\ last_call'.op = "finalize"
    ]_vars

\* The run is over: one job was completed late and stayed completed through
\* finalize, another one was under way and failed there.
C34_Witness ==
    /\ last_call.op = "finalize"
    /\ \E j \in DOMAIN jobs :
        /\ jobs[j].state = "completed"
        /\ jobs[j].lateness_s > 0
        /\ jobs[j].completed_sim_ts < current_sim_time_s(Eng)
    /\ \E j \in DOMAIN jobs :
        jobs[j].state = "failed" /\ jobs[j].started_sim_ts # NoTime

\* C35: one call of compute_baseline_assignments returns a partial matching:
\* no job and no robot is in two assignments, every assigned job is pending or
\* unassigned and not in already_assigned, every assigned robot is idle and
\* not in blocked_robots, and there are as many assignments as the smaller of
\* the candidate jobs and the candidate robots (the robots the call chooses
\* from: those at the battery threshold, or every idle non-blocked one when
\* none is).
C35_PartialMatching ==
    BaseCalled =>
        /\ \A i, k \in 1..Len(BaseResult) :
            i # k => /\ BaseResult[i].job_id # BaseResult[k].job_id
                     /\ BaseResult[i].robot_id # BaseResult[k].robot_id
        /\ \A i \in 1..Len(BaseResult) :
            /\ BaseResult[i].job_id \in DOMAIN base_in.jobs
            /\ base_in.jobs[BaseResult[i].job_id].state \in {"pending", "unassigned"}
            /\ BaseResult[i].job_id \notin base_in.already_assigned
            /\ BaseResult[i].robot_id \in DOMAIN base_in.robots
            /\ base_in.robots[BaseResult[i].robot_id].state = "idle"
            /\ BaseResult[i].robot_id \notin base_in.blocked_robots
        /\ Len(BaseResult) =
            Min(Cardinality(BaseCandidateJobs), Cardinality(RefCandidateRobots))

\* Two candidate jobs and two idle robots of which one is blocked: one
\* assignment; the other job is left.
C35_Witness ==
    /\ BaseCalled
    /\ Cardinality(BaseCandidateJobs) = 2
    /\ Cardinality({r \in DOMAIN base_in.robots : base_in.robots[r].state = "idle"}) = 2
    /\ Cardinality(base_in.blocked_robots) = 1
    /\ Len(BaseResult) = 1

\* The scores of the chromosomes evaluated in the `left` generations that
\* start from population.
RECURSIVE EvaluatedScores(_, _, _, _, _, _)
EvaluatedScores(population, rs, js, p, left, rng) ==
    IF left = 0 THEN {}
    ELSE The({{evaluate_chromosome(population[i], rs, js, p.service_time_s).score :
                    i \in DOMAIN population}
              \cup EvaluatedScores(g.next.value, rs, js, p, left - 1, g.next.rng) :
                g \in {generation(population, rs, js, p, NoBest, rng)}})

\* The call's robots in id order, and every score it evaluates in a generation.
OptRobots ==
    LET order == Sorted(DOMAIN fn_in.robots,
                        LAMBDA a, b : fn_in.robots[a].id < fn_in.robots[b].id)
    IN [i \in 1..Len(order) |-> fn_in.robots[order[i]]]

OptEvaluated ==
    The({EvaluatedScores(init.value, OptRobots, sorted_jobs(fn_in.jobs), fn_in.params,
                         fn_in.params.generations, init.rng) :
            init \in {initialize_population(fn_in.params.population_size, Len(fn_in.jobs),
                                            Len(fn_in.robots),
                                            [state |-> fn_in.seed % RngModulus,
                                             shared |-> FALSE])}})

RECURSIVE SumScores(_)
SumScores(assignments) ==
    IF assignments = <<>> THEN 0
    ELSE Head(assignments).score + SumScores(Tail(assignments))

\* C36: with robots and jobs optimize_assignments returns one assignment per
\* input job, each naming a robot id of the input, sorted by (job_id,
\* robot_id); meta.best_score is the sum of the returned per-job scores and,
\* when a generation evaluated anything, the least total score evaluated in
\* any generation; with no job or no robot it returns no assignment and
\* best_score 0.
C36_OneAssignmentPerJob ==
    \A k \in 1..Len(OptimizerCalls) :
        LET r == fn_out[k] IN
        IF fn_in.jobs = <<>> \/ fn_in.robots = <<>>
        THEN r.assignments = <<>> /\ r.meta.best_score = 0
        ELSE /\ Len(r.assignments) = Len(fn_in.jobs)
             /\ {r.assignments[i].job_id : i \in 1..Len(r.assignments)}
                    = {fn_in.jobs[i].id : i \in 1..Len(fn_in.jobs)}
             /\ \A i \in 1..Len(r.assignments) :
                    r.assignments[i].robot_id
                        \in {fn_in.robots[x].id : x \in 1..Len(fn_in.robots)}
             /\ \A i, x \in 1..Len(r.assignments) :
                    i < x => \/ r.assignments[i].job_id < r.assignments[x].job_id
                             \/ /\ r.assignments[i].job_id = r.assignments[x].job_id
                                /\ r.assignments[i].robot_id < r.assignments[x].robot_id
             /\ r.meta.best_score = SumScores(r.assignments)
             /\ OptEvaluated # {} =>
                    /\ r.meta.best_score \in OptEvaluated
                    /\ \A score \in OptEvaluated : r.meta.best_score <= score

\* Two calls with two jobs and two generations in which chromosomes of
\* different scores were evaluated; the best one sends the jobs to different
\* robots.
C36_Witness ==
    /\ Len(OptimizerCalls) = 2
    /\ Len(fn_in.jobs) = 2
    /\ fn_in.robots # <<>>
    /\ fn_in.params.generations = 2
    /\ Cardinality(OptEvaluated) > 1
    /\ fn_out[1].assignments[1].robot_id # fn_out[1].assignments[2].robot_id

\* C40: in GA mode the handling of a robot.updated that reports the robot
\* moving_to_pickup or moving_to_dropoff with its battery at or above the
\* threshold never calls _replan_ga with reason battery_guard, whatever the
\* robot's planned queue holds.
C40_NoBatteryGuardWhileMoving ==
    [][(/\ delivered'.robot_updated = delivered.robot_updated + 1
        /\ states # <<>>
        /\ states[Len(states)].mode = "ga"
        /\ Moving(NextRobotUpdate.state)
        /\ NextRobotUpdate.battery >= BatteryThreshold)
       => \A i \in 1..Len(replan_calls') : replan_calls'[i] # "battery_guard"
    ]_vars

\* C32: once the dispatcher has been handed the run.started and every
\* job.created of the run, each exactly once and in whatever order the two
\* queues were served, every created job is in the jobs map of the run's
\* RunState.
C32_EveryCreatedJobIngested ==
    (/\ redeliveries = 0
     /\ exchange.job_created # <<>>
     /\ delivered.run_started = Len(exchange.run_started)
     /\ delivered.job_created = Len(exchange.job_created))
    => /\ states # <<>>
       /\ \A i \in 1..Len(exchange.job_created) :
            exchange.job_created[i].job_id \in DOMAIN states[Len(states)].jobs

\* The terminal events published for job j so far.
TerminalEventsOf(ex, j) ==
    {i \in 1..Len(ex.job_terminal) : ex.job_terminal[i].job_id = j}

\* The terminal events a step of the run's task has added.
PublishedTerminal ==
    SubSeq(exchange'.job_terminal, Len(exchange.job_terminal) + 1,
           Len(exchange'.job_terminal))

\* C33: in a run that ends normally the sim-runner publishes one terminal
\* event per job and no more: an iteration of the loop publishes job.completed
\* for exactly the jobs that completed in it, the end of the run publishes
\* job.failed for exactly the jobs without a job.completed and then the one
\* run.completed, after which nothing more is published; no other step
\* publishes a terminal event.
C33_OneTerminalEventPerJob ==
    [][/\ Len(exchange'.job_terminal) >= Len(exchange.job_terminal)
       /\ SubSeq(exchange'.job_terminal, 1, Len(exchange.job_terminal))
            = exchange.job_terminal
       /\ \A j \in DOMAIN jobs :
            LET added == {i \in 1..Len(PublishedTerminal) :
                             PublishedTerminal[i].job_id = j}
                completes == jobs[j].state # "completed" /\ jobs'[j].state = "completed"
                ends == sim_pc = "loop" /\ sim_pc' = "done"
            IN /\ Cardinality(added) <= 1
               /\ added # {} <=> \/ completes
                                 \/ ends /\ TerminalEventsOf(exchange, j) = {}
               /\ \A i \in added :
                    PublishedTerminal[i].event_type =
                        IF completes THEN "job.completed" ELSE "job.failed"
               /\ completes => sim_pc = "loop" /\ sim_pc' = "loop"
               /\ Cardinality(TerminalEventsOf(exchange', j)) <= 1
               /\ sim_pc' = "done" => Cardinality(TerminalEventsOf(exchange', j)) = 1
       /\ \A i \in 1..Len(PublishedTerminal) : PublishedTerminal[i].job_id \in DOMAIN jobs
       /\ Len(exchange'.run_completed) = IF sim_pc' = "done" THEN 1 ELSE 0
       /\ sim_pc = "done" => exchange' = exchange
    ]_vars

\* A finished run in which one job was reported completed by an iteration of
\* the loop and the other reported failed at the end.
C33_Witness ==
    /\ sim_pc = "done"
    /\ Len(exchange.run_completed) = 1
    /\ \E i, k \in 1..Len(exchange.job_terminal) :
        /\ i < k
        /\ exchange.job_terminal[i].event_type = "job.completed"
        /\ exchange.job_terminal[i].sim_time_s < exchange.run_completed[1].sim_time_s
        /\ exchange.job_terminal[k].event_type = "job.failed"
        /\ exchange.job_terminal[k].job_id # exchange.job_terminal[i].job_id

\* C39: a robot is handed the jobs of its plan in the order in which the
\* optimizer evaluated them: while _replan_ga is emitting a job of a robot's
\* planned queue, no job still in that queue comes before it in the
\* sorted-jobs order (deadline_ts ascending, priority descending, id
\* ascending), and the jobs left in a queue are in that order.
C39_QueueInEvaluationOrder ==
    \A g \in 1..Len(states) :
        LET st == states[g] IN
        /\ \A r \in DOMAIN st.planned_queues :
            \A i, k \in 1..Len(st.planned_queues[r]) :
                i < k => JobKeyLess(st.jobs, st.planned_queues[r][i],
                                    st.planned_queues[r][k])
        /\ \A t \in DOMAIN tasks :
            (/\ tasks[t].gen = g
             /\ tasks[t].ctx = "replan"
             /\ tasks[t].job_id # NoJob
             /\ tasks[t].emit_robot \in DOMAIN st.planned_queues)
            => \A k \in 1..Len(st.planned_queues[tasks[t].emit_robot]) :
                 JobKeyLess(st.jobs, tasks[t].job_id,
                            st.planned_queues[tasks[t].emit_robot][k])

\* next_periodic_replan_sim_s of a RunState is what the interval allows: a
\* positive multiple of it, or unset when the interval is 0.
PeriodicSlotOk(st) ==
    IF ga_replan_interval_s > 0
    THEN /\ st.next_periodic_replan_sim_s # NoTime
         /\ st.next_periodic_replan_sim_s >= ga_replan_interval_s
         /\ st.next_periodic_replan_sim_s % ga_replan_interval_s = 0
    ELSE st.next_periodic_replan_sim_s = NoTime

\* The step is a stretch of a dispatcher handler, and it called _replan_ga
\* with reason periodic.
PeriodicCalled ==
    /\ <<states, tasks, delivered, redeliveries>>' # <<states, tasks, delivered, redeliveries>>
    /\ \E i \in 1..Len(replan_calls') : replan_calls'[i] = "periodic"

CaughtUp ==
    /\ states # <<>>
    /\ \A queue \in DispatcherQueues : delivered[queue] = Len(exchange[queue])
    /\ exchange.robot_updated # <<>>
    /\ \A t \in DOMAIN tasks : tasks[t].pc = "free"

\* The sim time of the robot.updated published last.
LastUpdateSimTime == exchange.robot_updated[Len(exchange.robot_updated)].sim_time_s

\* The engine has reported robot r idle at a sim time before s and has not
\* reported it in another state since.
IdleSinceBefore(r, s) ==
    \E i \in 1..Len(exchange.robot_updated) :
        /\ exchange.robot_updated[i].robot_id = r
        /\ exchange.robot_updated[i].state = "idle"
        /\ exchange.robot_updated[i].sim_time_s < s
        /\ \A k \in i..Len(exchange.robot_updated) :
            exchange.robot_updated[k].robot_id = r
                => exchange.robot_updated[k].state = "idle"

\* C38: in baseline mode, with run.started, the job.created and the
\* robot.updated messages handled in order and once, the dispatcher that has
\* handled the updates of a sim-second knows no pending job while a robot is
\* idle in the engine that was idle before that second and has no assignment
\* on its way: a job.assigned was emitted for it by then.  Nor is a robot
\* in pending_assignments then for a job it has completed already, which
\* no later update would take out again.
C38_BaselineProgress ==
    (CaughtUp /\ states[Len(states)].mode = "baseline")
    => LET st == states[Len(states)] IN
       /\ has_pending_jobs(st) =>
            \A r \in DOMAIN robots :
                ~(/\ robots[r].state = "idle"
                  /\ r \notin DOMAIN st.pending_assignments
                  /\ IdleSinceBefore(r, LastUpdateSimTime))
       /\ \A r \in DOMAIN st.pending_assignments :
            ~(/\ robots[r].state = "idle"
              /\ jobs[st.pending_assignments[r]].state = "completed")


\* C37: in GA mode with ga_replan_interval_s = 0, messages handled in order
\* and once and an optimizer that answers every request, the dispatcher that
\* has handled every update of a run still ticking does not know a pending
\* job while every robot of the engine is idle and has been since before the
\* sim-second handled last, with no assignment awaiting its confirmation:
\* the job has been assigned to one of them, whatever their battery.
C37_GaProgress ==
    (/\ CaughtUp
     /\ states[Len(states)].mode = "ga"
     /\ ga_replan_interval_s = 0
     /\ sim_pc = "loop")
    => ~(/\ has_pending_jobs(states[Len(states)])
         /\ DOMAIN states[Len(states)].pending_assignments = {}
         /\ \A r \in DOMAIN robots :
                /\ robots[r].state = "idle"
                /\ IdleSinceBefore(r, LastUpdateSimTime))
====
